---- MODULE Spec2Model ----
(***************************************************************************)
(* Matching core of the JD/resume matching backend: the token codec of     *)
(* MatchingService, the matching API handlers, the penalty engine and the  *)
(* sectional sentence scoring pipeline.                                    *)
(*                                                                         *)
(* Text is a sequence of Unicode code points, bytes are sequences of       *)
(* 0..255.  Scores, weights and penalties are Python floats (binary64).    *)
(***************************************************************************)
EXTENDS Integers, Sequences, FiniteSets, TLC

VARIABLES
    settings,   \* app.core.config.settings: JWT_SECRET_KEY, SECTIONAL_WEIGHTS
    pc,         \* position of the client/request life cycle
    call,       \* the operation last invoked, with its arguments
    result,     \* what that operation returned or raised
    resume_sentence_cache,  \* ScoringService._resume_sentence_cache of the instance in use
    resume_sentence,        \* the rows of the table resume_sentence
    resume_table,           \* the rows of the table resume
    job_sentence            \* the rows of the table job_sentence

vars == <<settings, pc, call, result, resume_sentence_cache, resume_sentence, resume_table, job_sentence>>

\* a new ScoringService has cached nothing
EmptyCache == [key \in {} |-> 0]

NoRows == {}

None == "None"

\* ------------------------------------------------------------------------
\* Sequence helpers
\* ------------------------------------------------------------------------

Min(a, b) == IF a <= b THEN a ELSE b

Max(a, b) == IF a >= b THEN a ELSE b

Range(s) == {s[i] : i \in DOMAIN s}

SeqsUpTo(S, n) == UNION {[1..k -> S] : k \in 0..n}

RECURSIVE Concat(_)
Concat(ss) == IF ss = <<>> THEN <<>> ELSE Head(ss) \o Concat(Tail(ss))

RECURSIVE SumSeq(_)
SumSeq(s) == IF s = <<>> THEN 0 ELSE Head(s) + SumSeq(Tail(s))

\* ------------------------------------------------------------------------
\* Characters used by the token codec (ASCII codes)
\* ------------------------------------------------------------------------

ChDot == 46

ChEq == 61

ChQuote == 34

ChBackslash == 92

\* "v1"
V1 == <<118, 49>>

\* "resume_id"
KeyResumeId == <<114, 101, 115, 117, 109, 101, 95, 105, 100>>

\* "job_id"
KeyJobId == <<106, 111, 98, 95, 105, 100>>

\* ------------------------------------------------------------------------
\* str.encode("utf-8") / bytes.decode("utf-8"), code points below 0x800
\* ------------------------------------------------------------------------

Ok(v) == [ok |-> TRUE, val |-> v]

Fail(e) == [ok |-> FALSE, val |-> e]

RECURSIVE Utf8Encode(_)
Utf8Encode(s) ==
    IF s = <<>> THEN <<>>
    ELSE LET c == Head(s) IN
         (IF c < 128 THEN <<c>>
          ELSE <<192 + (c \div 64), 128 + (c % 64)>>) \o Utf8Encode(Tail(s))

RECURSIVE Utf8Decode(_)
Utf8Decode(bs) ==
    IF bs = <<>> THEN Ok(<<>>)
    ELSE LET b == Head(bs) IN
         IF b < 128 THEN
             LET rest == Utf8Decode(Tail(bs)) IN
             IF rest.ok THEN Ok(<<b>> \o rest.val) ELSE rest
         ELSE IF b >= 194 /\ b < 224 /\ Len(bs) >= 2
                 /\ bs[2] >= 128 /\ bs[2] < 192 THEN
             LET rest == Utf8Decode(SubSeq(bs, 3, Len(bs))) IN
             IF rest.ok THEN Ok(<<(b - 192) * 64 + (bs[2] - 128)>> \o rest.val) ELSE rest
         ELSE Fail("UnicodeDecodeError")

\* ------------------------------------------------------------------------
\* json.dumps(payload, separators=(",", ":"), ensure_ascii=False) and
\* json.loads, for objects whose keys and values are strings
\* ------------------------------------------------------------------------

HexDigit(n) == IF n < 10 THEN 48 + n ELSE 87 + n

JsonEscapeChar(c) ==
    IF c = ChQuote THEN <<ChBackslash, ChQuote>>
    ELSE IF c = ChBackslash THEN <<ChBackslash, ChBackslash>>
    ELSE IF c = 10 THEN <<ChBackslash, 110>>
    ELSE IF c = 13 THEN <<ChBackslash, 114>>
    ELSE IF c = 9 THEN <<ChBackslash, 116>>
    ELSE IF c = 8 THEN <<ChBackslash, 98>>
    ELSE IF c = 12 THEN <<ChBackslash, 102>>
    ELSE IF c < 32 THEN <<ChBackslash, 117, 48, 48, HexDigit(c \div 16), HexDigit(c % 16)>>
    ELSE <<c>>

RECURSIVE JsonEscape(_)
JsonEscape(s) ==
    IF s = <<>> THEN <<>> ELSE JsonEscapeChar(Head(s)) \o JsonEscape(Tail(s))

JsonString(s) == <<ChQuote>> \o JsonEscape(s) \o <<ChQuote>>

\* {"resume_id":"<r>","job_id":"<j>"}
JsonDumps(payload) ==
    <<123>> \o JsonString(KeyResumeId) \o <<58>> \o JsonString(payload.resume_id)
            \o <<44>> \o JsonString(KeyJobId) \o <<58>> \o JsonString(payload.job_id)
            \o <<125>>

JsonFail == [ok |-> FALSE, val |-> "JSONDecodeError", next |-> 0]

HexVal(c) ==
    IF c >= 48 /\ c <= 57 THEN c - 48
    ELSE IF c >= 97 /\ c <= 102 THEN c - 87
    ELSE IF c >= 65 /\ c <= 70 THEN c - 55
    ELSE -1

UnescapeChar(c) ==
    IF c = ChQuote THEN ChQuote
    ELSE IF c = ChBackslash THEN ChBackslash
    ELSE IF c = 47 THEN 47
    ELSE IF c = 110 THEN 10
    ELSE IF c = 114 THEN 13
    ELSE IF c = 116 THEN 9
    ELSE IF c = 98 THEN 8
    ELSE IF c = 102 THEN 12
    ELSE -1

\* Scans a string literal whose opening quote is at s[i-1]; acc is the text read
\* so far.  Yields [ok, val, next] with next the index after the closing quote.
RECURSIVE JsonScanString(_, _, _)
JsonScanString(s, i, acc) ==
    IF i > Len(s) THEN JsonFail
    ELSE IF s[i] = ChQuote THEN [ok |-> TRUE, val |-> acc, next |-> i + 1]
    ELSE IF s[i] = ChBackslash THEN
        IF i + 1 > Len(s) THEN JsonFail
        ELSE IF s[i + 1] = 117 THEN
            IF i + 5 > Len(s) THEN JsonFail
            ELSE LET h == [k \in 1..4 |-> HexVal(s[i + 1 + k])] IN
                 IF \E k \in 1..4 : h[k] < 0 THEN JsonFail
                 ELSE JsonScanString(s, i + 6,
                         Append(acc, ((h[1] * 16 + h[2]) * 16 + h[3]) * 16 + h[4]))
        ELSE IF UnescapeChar(s[i + 1]) < 0 THEN JsonFail
        ELSE JsonScanString(s, i + 2, Append(acc, UnescapeChar(s[i + 1])))
    ELSE IF s[i] < 32 THEN JsonFail
    ELSE JsonScanString(s, i + 1, Append(acc, s[i]))

\* Members of an object, the cursor i standing on the opening quote of a key.
RECURSIVE JsonScanMembers(_, _, _)
JsonScanMembers(s, i, acc) ==
    IF i > Len(s) \/ s[i] # ChQuote THEN JsonFail
    ELSE LET k == JsonScanString(s, i + 1, <<>>) IN
         IF ~k.ok THEN JsonFail
         ELSE IF k.next + 1 > Len(s) \/ s[k.next] # 58 \/ s[k.next + 1] # ChQuote
              THEN JsonFail
         ELSE LET v == JsonScanString(s, k.next + 2, <<>>) IN
              IF ~v.ok THEN JsonFail
              ELSE IF v.next > Len(s) THEN JsonFail
              ELSE IF s[v.next] = 125 THEN
                  IF v.next = Len(s)
                  THEN [ok |-> TRUE, val |-> Append(acc, <<k.val, v.val>>), next |-> v.next + 1]
                  ELSE JsonFail
              ELSE IF s[v.next] = 44 THEN
                  JsonScanMembers(s, v.next + 1, Append(acc, <<k.val, v.val>>))
              ELSE JsonFail

\* The members of the object as a sequence of <<key, value>>.
JsonLoads(s) ==
    IF Len(s) < 2 \/ s[1] # 123 THEN JsonFail
    ELSE IF s[2] = 125 THEN (IF Len(s) = 2 THEN [ok |-> TRUE, val |-> <<>>, next |-> 3] ELSE JsonFail)
    ELSE JsonScanMembers(s, 2, <<>>)

\* dict.get(key): the value of the last member with that key, else None.
DictGet(members, key) ==
    LET hits == {i \in DOMAIN members : members[i][1] = key} IN
    IF hits = {} THEN None
    ELSE members[CHOOSE i \in hits : \A k \in hits : k <= i][2]

\* ------------------------------------------------------------------------
\* base64.urlsafe_b64encode / urlsafe_b64decode
\* ------------------------------------------------------------------------

B64Char(n) ==
    IF n < 26 THEN 65 + n
    ELSE IF n < 52 THEN 97 + (n - 26)
    ELSE IF n < 62 THEN 48 + (n - 52)
    ELSE IF n = 62 THEN 45
    ELSE 95

B64Val(c) ==
    IF c >= 65 /\ c <= 90 THEN c - 65
    ELSE IF c >= 97 /\ c <= 122 THEN c - 97 + 26
    ELSE IF c >= 48 /\ c <= 57 THEN c - 48 + 52
    ELSE IF c = 45 THEN 62
    ELSE IF c = 95 THEN 63
    ELSE -1

\* Byte i of bs, zero beyond its end (the bits base64 fills in).
ByteAt(bs, i) == IF i <= Len(bs) THEN bs[i] ELSE 0

\* Character p (1..4) of the quad that encodes bytes 3q+1 .. 3q+3.
B64QuadChar(bs, q, p) ==
    LET b1 == ByteAt(bs, 3 * q + 1)
        b2 == ByteAt(bs, 3 * q + 2)
        b3 == ByteAt(bs, 3 * q + 3)
    IN  IF p = 1 THEN B64Char(b1 \div 4)
        ELSE IF p = 2 THEN B64Char((b1 % 4) * 16 + (b2 \div 16))
        ELSE IF 3 * q + p - 1 > Len(bs) THEN ChEq
        ELSE IF p = 3 THEN B64Char((b2 % 16) * 4 + (b3 \div 64))
        ELSE B64Char(b3 % 64)

UrlsafeB64Encode(bs) ==
    [k \in 1..(4 * ((Len(bs) + 2) \div 3)) |-> B64QuadChar(bs, (k - 1) \div 4, ((k - 1) % 4) + 1)]

B64Fail == Fail("binascii.Error")

\* Input must be a whole number of quads of alphabet characters; "=" may only
\* close the last quad.
UrlsafeB64Decode(cs) ==
    LET n == Len(cs)
        npad == IF n >= 2 /\ cs[n] = ChEq /\ cs[n - 1] = ChEq THEN 2
                ELSE IF n >= 1 /\ cs[n] = ChEq THEN 1 ELSE 0
        val(i) == IF i > n - npad THEN 0 ELSE B64Val(cs[i])
        nbytes == 3 * (n \div 4) - npad
        byte(i) == LET q == (i - 1) \div 3
                       r == (i - 1) % 3
                       a == val(4 * q + 1)
                       b == val(4 * q + 2)
                       c == val(4 * q + 3)
                       d == val(4 * q + 4)
                   IN  IF r = 0 THEN a * 4 + (b \div 16)
                       ELSE IF r = 1 THEN (b % 16) * 16 + (c \div 4)
                       ELSE (c % 4) * 64 + d
    IN  IF n % 4 # 0 THEN B64Fail
        ELSE IF \E i \in 1..(n - npad) : B64Val(cs[i]) < 0 THEN B64Fail
        ELSE Ok([i \in 1..nbytes |-> byte(i)])

\* bytes.rstrip(b"=")
RStripEq(cs) ==
    LET keep == {i \in DOMAIN cs : cs[i] # ChEq} IN
    IF keep = {} THEN <<>>
    ELSE SubSeq(cs, 1, CHOOSE i \in keep : \A k \in keep : k <= i)

\* '=' * (-len(b64) % 4)
Pad(n) == [i \in 1..((4 - (n % 4)) % 4) |-> ChEq]

\* ------------------------------------------------------------------------
\* hmac.new(secret, msg, hashlib.sha256).digest(): a keyed digest, idealised as
\* collision free (distinct messages have distinct digests under one key).
\* ------------------------------------------------------------------------

HmacSha256(key, msg) ==
    [i \in 1..Len(msg) |-> (msg[i] + key[((i - 1) % Len(key)) + 1] + i) % 256]

\* str.split(sep) for a one-character separator
Split(s, sep) ==
    LET seps == {i \in DOMAIN s : s[i] = sep}
        nth(k) == IF k = 0 THEN 0
                  ELSE IF k > Cardinality(seps) THEN Len(s) + 1
                  ELSE CHOOSE i \in seps : Cardinality({j \in seps : j <= i}) = k
    IN  [k \in 1..(Cardinality(seps) + 1) |-> SubSeq(s, nth(k - 1) + 1, nth(k) - 1)]

\* ------------------------------------------------------------------------
\* MatchingService token codec
\* ------------------------------------------------------------------------

generate_matching_id(secret, resume_id, job_id) ==
    LET payload_bytes == Utf8Encode(JsonDumps([resume_id |-> resume_id, job_id |-> job_id]))
        b64 == RStripEq(UrlsafeB64Encode(payload_bytes))
        sig == HmacSha256(secret, V1 \o <<ChDot>> \o b64)
        sig_b64 == RStripEq(UrlsafeB64Encode(sig))
    IN  V1 \o <<ChDot>> \o b64 \o <<ChDot>> \o sig_b64

Raised(e) == [status |-> "raised", error |-> e]

\* The payload decoded without restoring the padding that encoding stripped.
B64DecodeUnpadded(b64) == UrlsafeB64Decode(b64)

B64DecodePadded(b64) == UrlsafeB64Decode(b64 \o Pad(Len(b64)))

\* The payload read without comparing the signature segment.
decode_matching_id_unverified(secret, token) ==
    LET parts == Split(token, ChDot) IN
    IF Len(parts) # 3 \/ parts[1] # V1 THEN Raised("ValueError: invalid token format")
    ELSE LET payload_bytes == B64DecodePadded(parts[2]) IN
         IF ~payload_bytes.ok THEN Raised(payload_bytes.val)
         ELSE LET text == Utf8Decode(payload_bytes.val) IN
              IF ~text.ok THEN Raised(text.val)
              ELSE LET payload == JsonLoads(text.val) IN
                   IF ~payload.ok THEN Raised(payload.val)
                   ELSE [status |-> "ok",
                         resume_id |-> DictGet(payload.val, KeyResumeId),
                         job_id |-> DictGet(payload.val, KeyJobId)]

decode_matching_id(secret, token) ==
    LET parts == Split(token, ChDot) IN
    IF Len(parts) # 3 \/ parts[1] # V1 THEN Raised("ValueError: invalid token format")
    ELSE LET b64 == parts[2]
             sig == parts[3]
             expected == HmacSha256(secret, V1 \o <<ChDot>> \o b64)
             expected_b64 == RStripEq(UrlsafeB64Encode(expected))
         IN  IF expected_b64 # sig THEN Raised("ValueError: invalid signature")
             ELSE LET payload_bytes == B64DecodePadded(b64) IN
                  IF ~payload_bytes.ok THEN Raised(payload_bytes.val)
                  ELSE LET text == Utf8Decode(payload_bytes.val) IN
                       IF ~text.ok THEN Raised(text.val)
                       ELSE LET payload == JsonLoads(text.val) IN
                            IF ~payload.ok THEN Raised(payload.val)
                            ELSE [status |-> "ok",
                                  resume_id |-> DictGet(payload.val, KeyResumeId),
                                  job_id |-> DictGet(payload.val, KeyJobId)]

\* ------------------------------------------------------------------------
\* Python float arithmetic (IEEE-754 binary64, round to nearest, ties to
\* even; numpy float32 where the code asks for it).  A natural number is a
\* little-endian sequence of limbs in base 2^15, without leading zeros; a
\* float is [s, m, e] and stands for s * m * 2^e with m odd (m = <<>> for 0).
\* Exponent range limits (overflow, subnormals) are never reached here.
\* ------------------------------------------------------------------------
LimbBits == 15

Base == 2^LimbBits

DoublePrecision == 53

SinglePrecision == 24

Limb(a, i) == IF i \in 1..Len(a) THEN a[i] ELSE 0

BNorm(a) ==
    LET nz == {i \in 1..Len(a) : a[i] # 0}
    IN  IF nz = {} THEN <<>> ELSE SubSeq(a, 1, CHOOSE i \in nz : \A j \in nz : j <= i)

BFromInt(n) == BNorm(<<n % Base, (n \div Base) % Base, n \div (Base * Base)>>)

RECURSIVE BAddFrom(_, _, _, _, _)
BAddFrom(a, b, i, c, n) ==
    IF i > n THEN <<>>
    ELSE LET t == Limb(a, i) + Limb(b, i) + c
         IN  <<t % Base>> \o BAddFrom(a, b, i + 1, t \div Base, n)

BAdd(a, b) == BNorm(BAddFrom(a, b, 1, 0, Max(Len(a), Len(b)) + 1))

\* a - b for a >= b
RECURSIVE BSubFrom(_, _, _, _)
BSubFrom(a, b, i, c) ==
    IF i > Len(a) THEN <<>>
    ELSE LET t == Limb(a, i) - Limb(b, i) - c
         IN  <<t % Base>> \o BSubFrom(a, b, i + 1, IF t < 0 THEN 1 ELSE 0)

BSub(a, b) == BNorm(BSubFrom(a, b, 1, 0))

\* -1, 0 or 1 as a < b, a = b or a > b
BCmp(a, b) ==
    IF Len(a) # Len(b) THEN (IF Len(a) < Len(b) THEN -1 ELSE 1)
    ELSE LET df == {i \in 1..Len(a) : a[i] # b[i]}
         IN  IF df = {} THEN 0
             ELSE LET i == CHOOSE k \in df : \A j \in df : j <= k
                  IN  IF a[i] < b[i] THEN -1 ELSE 1

RECURSIVE BMulSmallFrom(_, _, _, _)
BMulSmallFrom(a, k, i, c) ==
    IF i > Len(a) + 1 THEN <<>>
    ELSE LET t == Limb(a, i) * k + c
         IN  <<t % Base>> \o BMulSmallFrom(a, k, i + 1, t \div Base)

BMulSmall(a, k) == BNorm(BMulSmallFrom(a, k, 1, 0))

ShiftLimbs(a, n) == IF a = <<>> THEN <<>> ELSE [i \in 1..n |-> 0] \o a

RECURSIVE BMulFrom(_, _, _)
BMulFrom(a, b, j) ==
    IF j > Len(b) THEN <<>>
    ELSE LET rest == BMulFrom(a, b, j + 1)
         IN  IF rest = <<>> THEN ShiftLimbs(BMulSmall(a, b[j]), j - 1)
             ELSE BAdd(ShiftLimbs(BMulSmall(a, b[j]), j - 1), rest)

BMul(a, b) == BMulFrom(a, b, 1)

BShl(a, k) == ShiftLimbs(BMulSmall(a, 2^(k % LimbBits)), k \div LimbBits)

BShr(a, k) ==
    LET d == k \div LimbBits
        r == k % LimbBits
    IN  BNorm([i \in 1..Max(Len(a) - d, 0) |->
                  (Limb(a, i + d) \div 2^r) + (Limb(a, i + d + 1) % 2^r) * 2^(LimbBits - r)])

BBitLen(a) ==
    IF a = <<>> THEN 0
    ELSE LimbBits * (Len(a) - 1)
         + (CHOOSE k \in 1..LimbBits : 2^(k - 1) <= a[Len(a)] /\ a[Len(a)] < 2^k)

\* number of trailing zero bits of a # 0
BTrailingZeros(a) ==
    LET i == CHOOSE k \in 1..Len(a) : a[k] # 0 /\ \A j \in 1..(k - 1) : a[j] = 0
    IN  LimbBits * (i - 1)
        + (CHOOSE t \in 0..(LimbBits - 1) : a[i] % 2^t = 0 /\ (a[i] \div 2^t) % 2 = 1)

\* the largest k < 2^(i+1) + k0 with d * k <= r, for r < d * Base
RECURSIVE BSmallQuot(_, _, _, _)
BSmallQuot(r, d, i, k) ==
    IF i < 0 THEN k
    ELSE IF BCmp(BMulSmall(d, k + 2^i), r) <= 0
         THEN BSmallQuot(r, d, i - 1, k + 2^i)
         ELSE BSmallQuot(r, d, i - 1, k)

\* quotient limbs and remainder of floor(n / Base^(i-1)) divided by d
BDivDigit(q, r1, d, k) == [q |-> <<k>> \o q, r |-> BSub(r1, BMulSmall(d, k))]

BDivLimbs(q, r1, d) ==
    IF BCmp(r1, d) < 0 THEN [q |-> <<0>> \o q, r |-> r1]
    ELSE BDivDigit(q, r1, d, BSmallQuot(r1, d, LimbBits - 1, 0))

BDivBelow(hi, limb, d) ==
    IF hi.r = <<>> /\ limb = 0 THEN [q |-> <<0>> \o hi.q, r |-> <<>>]
    ELSE BDivLimbs(hi.q, BNorm(<<limb>> \o hi.r), d)

RECURSIVE BDivFrom(_, _, _)
BDivFrom(n, d, i) ==
    IF i > Len(n) THEN [q |-> <<>>, r |-> <<>>]
    ELSE BDivBelow(BDivFrom(n, d, i + 1), n[i], d)

\* quotient limbs and remainder of floor(n / Base^(i-1)) divided by k < Base
RECURSIVE BDivSmallFrom(_, _, _)
BDivSmallFrom(n, k, i) ==
    IF i > Len(n) THEN [q |-> <<>>, r |-> 0]
    ELSE LET Digit(q, r1) == [q |-> <<r1 \div k>> \o q, r |-> r1 % k]
             Below(hi) == Digit(hi.q, hi.r * Base + n[i])
         IN  Below(BDivSmallFrom(n, k, i + 1))

\* floor(n / d) and the remainder
BDivMod(n, d) ==
    LET Small(x) == [q |-> BNorm(x.q), r |-> BFromInt(x.r)]
        Long(x)  == [q |-> BNorm(x.q), r |-> x.r]
    IN  IF Len(d) = 1 THEN Small(BDivSmallFrom(n, d[1], 1)) ELSE Long(BDivFrom(n, d, 1))

FZero == [s |-> 0, m |-> <<>>, e |-> 0]

Canon(s, m, e) ==
    IF m = <<>> \/ s = 0 THEN FZero
    ELSE LET Odd(tz) == [s |-> s, m |-> BShr(m, tz), e |-> e + tz] IN Odd(BTrailingZeros(m))

\* q rounded to nearest, ties to even, where the discarded part is r / d
RoundHalfEven(q, r, d) ==
    LET Up(c) == c > 0 \/ (c = 0 /\ Limb(q, 1) % 2 = 1)
    IN  IF Up(BCmp(BShl(r, 1), d)) THEN BAdd(q, <<1>>) ELSE q

Nearest(qr, s, d, e) == [q |-> qr.q, v |-> Canon(s, RoundHalfEven(qr.q, qr.r, d), e)]

\* floor(n / d) and the float nearest to s * (n / d) * 2^e among the
\* multiples of 2^e
RoundAt(s, n, d, e) == Nearest(BDivMod(n, d), s, d, e)

\* the float of precision p nearest to s * (n / d) * 2^sc, its last place
\* at 2^(e + sc) or above
RECURSIVE FRoundFrom(_, _, _, _, _, _)
FRoundFrom(e, s, n, d, sc, p) ==
    LET Fits(r) == IF BBitLen(r.q) > p THEN FRoundFrom(e + 1, s, n, d, sc, p) ELSE r.v
    IN  Fits(RoundAt(s, IF e >= 0 THEN n ELSE BShl(n, -e),
                     IF e >= 0 THEN BShl(d, e) ELSE d, e + sc))

\* the float of precision p nearest to s * (n / d) * 2^sc
FRound(s, n, d, sc, p) ==
    IF n = <<>> \/ s = 0 THEN FZero
    ELSE IF d = <<1>> /\ BBitLen(n) <= p THEN Canon(s, n, sc)
    ELSE FRoundFrom(BBitLen(n) - BBitLen(d) - p, s, n, d, sc, p)

FNeg(x) == [x EXCEPT !.s = -x.s]

\* -1, 0 or 1 as x < y, x = y or x > y
FCmpAt(x, y, e) == x.s * BCmp(BShl(x.m, x.e - e), BShl(y.m, y.e - e))

FCmp(x, y) ==
    IF x.s # y.s THEN (IF x.s < y.s THEN -1 ELSE 1)
    ELSE IF x.s = 0 THEN 0
    ELSE FCmpAt(x, y, Min(x.e, y.e))

FLt(x, y) == FCmp(x, y) < 0

FLe(x, y) == FCmp(x, y) <= 0

FMaxOf(x, y) == IF FLt(x, y) THEN y ELSE x

FMinOf(x, y) == IF FLt(y, x) THEN y ELSE x

\* x + y for nonzero x and y whose magnitudes are xm * 2^e and ym * 2^e,
\* c comparing xm with ym
FAddSigned(x, y, xm, ym, c, e, p) ==
    FRound(IF x.s = y.s \/ c > 0 THEN x.s ELSE IF c = 0 THEN 0 ELSE y.s,
           IF x.s = y.s THEN BAdd(xm, ym)
           ELSE IF c >= 0 THEN BSub(xm, ym) ELSE BSub(ym, xm),
           <<1>>, e, p)

FAddAligned(x, y, xm, ym, e, p) == FAddSigned(x, y, xm, ym, BCmp(xm, ym), e, p)

FAddAt(x, y, e, p) == FAddAligned(x, y, BShl(x.m, x.e - e), BShl(y.m, y.e - e), e, p)

FAddP(x, y, p) ==
    IF x.s = 0 THEN y
    ELSE IF y.s = 0 THEN x
    ELSE FAddAt(x, y, Min(x.e, y.e), p)

FAdd(x, y) == FAddP(x, y, DoublePrecision)

FSub(x, y) == FAdd(x, FNeg(y))

FMul(x, y) ==
    IF x.s = 0 \/ y.s = 0 THEN FZero
    ELSE FRound(x.s * y.s, BMul(x.m, y.m), <<1>>, x.e + y.e, DoublePrecision)

\* x / y for y # 0
FDivP(x, y, p) ==
    IF x.s = 0 \/ y.s = 0 THEN FZero
    ELSE FRound(x.s * y.s, x.m, y.m, x.e - y.e, p)

FDiv(x, y) == FDivP(x, y, DoublePrecision)

\* an int as a float (exact)
FromInt(n) == IF n = 0 THEN FZero
              ELSE Canon(IF n < 0 THEN -1 ELSE 1, BFromInt(IF n < 0 THEN -n ELSE n), 0)

\* the float written as the decimal literal n/d, d a power of ten
Dec(n, d) == FRound(1, BFromInt(n), BFromInt(d), 0, DoublePrecision)

RECURSIVE FSum(_)
FSum(s) == IF s = <<>> THEN FZero ELSE FAdd(FSum(SubSeq(s, 1, Len(s) - 1)), s[Len(s)])

\* ------------------------------------------------------------------------
\* Decimal(str(x)): str gives the shortest decimal that reads back as x
\* (the nearest one of that length), Decimal takes it exactly.
\* A decimal is s * n / 10^k; the floats converted are below 10^16 in
\* magnitude.
\* ------------------------------------------------------------------------
ReprDigits == 17

DZero == [s |-> 0, n |-> <<>>, k |-> 0]

RECURSIVE Pow10(_)
Pow10(k) == IF k <= 9 THEN BFromInt(10^k) ELSE BMul(BFromInt(10^9), Pow10(k - 9))

\* n / 2^(-x.e) rounded to an integer, q its integer part
RoundedShift(x, n, q) == RoundHalfEven(q, BSub(n, BShl(q, -x.e)), BShl(<<1>>, -x.e))

ScaledBy(x, n) == IF x.e >= 0 THEN BShl(n, x.e) ELSE RoundedShift(x, n, BShr(n, -x.e))

\* |x| * 10^k rounded to an integer
ScaledDigits(x, k) == ScaledBy(x, BMul(x.m, Pow10(k)))

\* round(x, places)
RoundTo(x, places) ==
    IF x.s = 0 THEN FZero
    ELSE FRound(x.s, ScaledDigits(x, places), Pow10(places), 0, DoublePrecision)

RoundPlaces == 6

\* round(x, 6)
Round6(x) == RoundTo(x, RoundPlaces)

\* the least k >= k0 with |x| * 10^k >= 1
RECURSIVE FirstDigitPlace(_, _)
FirstDigitPlace(x, k) ==
    IF x.e >= 0 \/ BBitLen(BMul(x.m, Pow10(k))) > -x.e THEN k
    ELSE FirstDigitPlace(x, k + 1)

ReadsBack(x, k) ==
    FRound(x.s, ScaledDigits(x, k), Pow10(k), 0, DoublePrecision) = x

\* the least number of places in lo..hi at which the rounded decimal reads
\* back as x; the decimal with hi places does
RECURSIVE ShortestPlaces(_, _, _)
ShortestPlaces(x, lo, hi) ==
    IF lo >= hi THEN hi
    ELSE IF ReadsBack(x, (lo + hi) \div 2) THEN ShortestPlaces(x, lo, (lo + hi) \div 2)
    ELSE ShortestPlaces(x, (lo + hi) \div 2 + 1, hi)

DecimalAt(x, k) == [s |-> x.s, n |-> ScaledDigits(x, k), k |-> k]

DecimalFrom(x, k0) == DecimalAt(x, ShortestPlaces(x, k0, k0 + ReprDigits - 1))

DecimalOfStr(x) == IF x.s = 0 THEN DZero ELSE DecimalFrom(x, FirstDigitPlace(x, 0))

\* -1, 0 or 1 as the decimal is below, equal to or above the fraction a / b
\* (a >= 0, b > 0)
DCmp(dec, a, b) ==
    IF dec.s < 0 THEN -1
    ELSE IF dec.s = 0 THEN (IF a = 0 THEN 0 ELSE -1)
    ELSE BCmp(BMul(dec.n, BFromInt(b)), BMul(BFromInt(a), Pow10(dec.k)))

\* float(dec): the float nearest to the decimal
FloatOfDecimal(dec) == FRound(dec.s, dec.n, Pow10(dec.k), 0, DoublePrecision)

\* ------------------------------------------------------------------------
\* Configuration (app.core.config.Settings)
\* ------------------------------------------------------------------------

SECTIONAL_WEIGHTS ==
    [k \in {"required", "experience", "overall", "preferred", "education",
            "certification", "language"} |->
        CASE k = "required" -> Dec(40, 100)
          [] k = "experience" -> Dec(30, 100)
          [] k = "overall" -> Dec(20, 100)
          [] k = "preferred" -> Dec(8, 100)
          [] k = "education" -> Dec(15, 1000)
          [] k = "certification" -> Dec(5, 1000)
          [] OTHER -> FZero]

\* The weight table of the aggregator design, as a deployment supplies it
\* through the environment (Settings reads every field from .env).
EnvSectionalWeights ==
    [k \in {"required_match", "experience_match", "overall_similarity",
            "preferred_match", "education", "certification", "language"} |->
        CASE k = "required_match" -> Dec(40, 100)
          [] k = "experience_match" -> Dec(30, 100)
          [] k = "overall_similarity" -> Dec(20, 100)
          [] k = "preferred_match" -> Dec(8, 100)
          [] k = "education" -> Dec(15, 1000)
          [] k = "certification" -> Dec(5, 1000)
          [] OTHER -> FZero]

WeightTables == {SECTIONAL_WEIGHTS, EnvSectionalWeights}

\* JWT_SECRET_KEY values: "dev" and "s3"
Secrets == {<<100, 101, 118>>, <<115, 51>>}

\* The keys _calculate_matching_score_sectional_sentences reads from self.weights
WeightKeysRead == {"required_match", "preferred_match", "experience_match", "overall_similarity"}

\* dict[key] raises KeyError for a key the table lacks.
WeightLookupRaises(weights) == \E k \in WeightKeysRead : k \notin DOMAIN weights

\* ------------------------------------------------------------------------
\* Clients: the ids tokens are issued for, and what a client may send back
\* ------------------------------------------------------------------------

\* "", a1, "\ (quote, backslash), e-acute followed by a dot, a newline
Ids == {<<>>, <<97, 49>>, <<34, 92>>, <<233, 46>>, <<10>>}

\* Another character than c.
Flip(c) == IF c = 65 THEN 66 ELSE 65

Substitute(t, i, c) == [t EXCEPT ![i] = c]

\* Segment of position i of a three-segment token: 1 version, 2 payload, 3 signature,
\* 0 for a separator.
SegmentOf(t, i) ==
    IF t[i] = ChDot THEN 0
    ELSE 1 + Cardinality({k \in 1..i : t[k] = ChDot})

SegmentKind(n) ==
    CASE n = 1 -> "version" [] n = 2 -> "payload" [] n = 3 -> "signature" [] OTHER -> "separator"

JoinDots(parts) ==
    Concat([k \in DOMAIN parts |-> IF k = 1 THEN parts[k] ELSE <<ChDot>> \o parts[k]])

\* What a client can make of an issued token: the token itself, one character
\* changed, a segment added or removed, or re-signed under a key of its own.
Variants(t, secret, r, j) ==
    LET parts == Split(t, ChDot) IN
    {[kind |-> "intact", token |-> t]}
    \cup {[kind |-> SegmentKind(SegmentOf(t, i)), token |-> Substitute(t, i, Flip(t[i]))] :
            i \in DOMAIN t}
    \cup {[kind |-> SegmentKind(SegmentOf(t, i)), token |-> Substitute(t, i, ChDot)] :
            i \in {k \in DOMAIN t : t[k] # ChDot /\ (k = 1 \/ t[k - 1] = ChDot)}}
    \cup {[kind |-> "segment_added", token |-> t \o <<ChDot>> \o x] : x \in {<<>>, parts[3]}}
    \cup {[kind |-> "segment_added", token |-> V1 \o <<ChDot>> \o t]}
    \cup {[kind |-> "segment_removed", token |-> JoinDots(<<parts[1], parts[2]>>)],
          [kind |-> "segment_removed", token |-> JoinDots(<<parts[1], parts[3]>>)],
          [kind |-> "segment_removed", token |-> JoinDots(<<parts[2], parts[3]>>)]}
    \cup {[kind |-> "resigned", token |-> generate_matching_id(k, r, j)] :
            k \in Secrets \ {secret}}

\* ------------------------------------------------------------------------
\* api/v1/matching.py: the three endpoints that take a matching_id token
\* ------------------------------------------------------------------------

TokenEndpoints == {"detail", "feedback", "sentence-matches"}

\* not x, for x a str or None
Falsy(x) == x = None \/ x = <<>>

\* get_matching_detail_by_token, generate_feedback_on_demand and
\* get_sentence_level_matches share this control flow.  db_job and db_resume are
\* what the two queries find; score_raises says whether calculate_matching_score
\* raised.
MatchingEndpoint(secret, matching_id, db_job, db_resume, score_raises) ==
    LET ids == decode_matching_id(secret, matching_id) IN
    IF ids.status = "raised" THEN [status_code |-> 500, detail |-> ids.error]
    ELSE IF Falsy(ids.resume_id) \/ Falsy(ids.job_id)
        THEN [status_code |-> 404, detail |-> "Invalid matching_id"]
    ELSE IF ~db_job \/ ~db_resume
        THEN [status_code |-> 404, detail |-> "Job or Resume not found"]
    ELSE IF score_raises THEN [status_code |-> 500, detail |-> "KeyError"]
    ELSE [status_code |-> 200, detail |-> "ok"]

\* ------------------------------------------------------------------------
\* State machine of the token codec and its endpoints
\* ------------------------------------------------------------------------

NoCall == [op |-> "none"]

NoResult == [status |-> "none"]

Init ==
    /\ settings \in [JWT_SECRET_KEY : Secrets, SECTIONAL_WEIGHTS : WeightTables]
    /\ pc = "idle"
    /\ call = NoCall
    /\ result = NoResult
    /\ resume_sentence_cache = EmptyCache
    /\ resume_sentence = NoRows
    /\ resume_table = NoRows
    /\ job_sentence = NoRows

\* search_jobs_for_resume attaches a token to an item (matching_service.py:132)
GenerateMatchingId ==
    /\ pc = "idle"
    /\ \E r \in Ids, j \in Ids :
        /\ call' = [op |-> "generate", resume_id |-> r, job_id |-> j]
        /\ result' = [status |-> "ok",
                      token |-> generate_matching_id(settings.JWT_SECRET_KEY, r, j)]
    /\ pc' = "issued"
    /\ UNCHANGED <<settings, resume_sentence_cache, resume_sentence, resume_table, job_sentence>>

\* The client sends the token back, as issued or altered.
PresentToken ==
    /\ pc = "issued"
    /\ \E v \in Variants(result.token, settings.JWT_SECRET_KEY, call.resume_id, call.job_id) :
        /\ call' = [op |-> "present", resume_id |-> call.resume_id, job_id |-> call.job_id,
                    kind |-> v.kind, token |-> v.token]
        /\ result' = [status |-> "sent"]
    /\ pc' = "presented"
    /\ UNCHANGED <<settings, resume_sentence_cache, resume_sentence, resume_table, job_sentence>>

DecodeMatchingId ==
    /\ pc = "presented"
    /\ call' = [call EXCEPT !.op = "decode"]
    /\ result' = decode_matching_id(settings.JWT_SECRET_KEY, call.token)
    /\ pc' = "done"
    /\ UNCHANGED <<settings, resume_sentence_cache, resume_sentence, resume_table, job_sentence>>

GetMatching ==
    /\ pc = "presented"
    /\ \E e \in TokenEndpoints, db_job \in BOOLEAN, db_resume \in BOOLEAN :
        LET queried == decode_matching_id(settings.JWT_SECRET_KEY, call.token).status = "ok" IN
        \* the store answers only when it is asked
        /\ queried \/ (db_job /\ db_resume)
        /\ call' = [call EXCEPT !.op = e]
        /\ result' = MatchingEndpoint(settings.JWT_SECRET_KEY, call.token, db_job, db_resume,
                                      WeightLookupRaises(settings.SECTIONAL_WEIGHTS))
    /\ pc' = "done"
    /\ UNCHANGED <<settings, resume_sentence_cache, resume_sentence, resume_table, job_sentence>>

NextToken == GenerateMatchingId \/ PresentToken \/ DecodeMatchingId \/ GetMatching

SpecToken == Init /\ [][NextToken]_vars

\* ------------------------------------------------------------------------
\* Token codec claims
\* ------------------------------------------------------------------------

\* C1: for every pair of ids and a fixed secret, decoding the generated token
\* succeeds and returns exactly the resume_id and job_id it was built from.
C1_RoundTrip ==
    (call.op = "decode" /\ call.kind = "intact") =>
        /\ result.status = "ok"
        /\ result.resume_id = call.resume_id
        /\ result.job_id = call.job_id

\* An intact token whose ids need JSON escapes and two-byte UTF-8 was decoded.
C1_Witness ==
    /\ call.op = "decode" /\ call.kind = "intact"
    /\ call.resume_id = <<34, 92>> /\ call.job_id = <<233, 46>>
    /\ result.status = "ok" /\ result.resume_id = <<34, 92>>

TamperKinds == {"version", "payload", "signature", "segment_added", "segment_removed"}

\* C2: a token with a character of its version, payload or signature segment
\* changed, or with a segment added or removed, is rejected with an error and
\* yields no ids.
C2_TamperRejected ==
    (call.op = "decode" /\ call.kind \in TamperKinds) =>
        /\ result.status = "raised"
        /\ "resume_id" \notin DOMAIN result
        /\ "job_id" \notin DOMAIN result

\* A token with one signature character changed was rejected as a bad signature.
C2_Witness ==
    /\ call.op = "decode" /\ call.kind = "signature"
    /\ result.status = "raised"
    /\ result.error = "ValueError: invalid signature"

\* C3 (as claimed): a token endpoint answers a malformed, wrong-version or
\* bad-signature token with HTTP 404.
C3_InvalidTokenIs404 ==
    (call.op \in TokenEndpoints /\ call.kind \in TamperKinds) => result.status_code = 404


\* ------------------------------------------------------------------------
\* Texts used as field values (code points) and nullable columns.  A NULL
\* integer column is <<>>, a value y is <<y>>.  A NULL or empty string is
\* <<>>, a NULL or empty JSON object is EmptyDict: the code reads each of
\* them through "x or default" or "not x".
\* ------------------------------------------------------------------------
junior == <<106, 117, 110, 105, 111, 114>>  \* "junior"

mid == <<109, 105, 100>>  \* "mid"

senior == <<115, 101, 110, 105, 111, 114>>  \* "senior"

SeniorCapitalised == <<83, 101, 110, 105, 111, 114>>  \* "Senior"

lead == <<108, 101, 97, 100>>  \* "lead"

python == <<112, 121, 116, 104, 111, 110>>  \* "python"

PythonCapitalised == <<80, 121, 116, 104, 111, 110>>  \* "Python"

java == <<106, 97, 118, 97>>  \* "java"

docker == <<100, 111, 99, 107, 101, 114>>  \* "docker"

express == <<101, 120, 112, 114, 101, 115, 115>>  \* "express"

react == <<114, 101, 97, 99, 116>>  \* "react"

sql == <<115, 113, 108>>  \* "sql"

NoYears == <<>>

Years(y) == <<y>>

OrZero(column) == IF column = <<>> THEN 0 ELSE column[1]

EmptyDict == [k \in {} |-> 0]

Get(dict, key, default) == IF key \in DOMAIN dict THEN dict[key] ELSE default

\* str.lower() on ASCII letters
Lower(s) == [i \in 1..Len(s) |-> IF s[i] \in 65..90 THEN s[i] + 32 ELSE s[i]]

\* a in b
IsSubstring(a, b) == \E i \in 0..(Len(b) - Len(a)) : SubSeq(b, i + 1, i + Len(a)) = a

\* ------------------------------------------------------------------------
\* core/config.py: penalties, cap and grade thresholds
\* ------------------------------------------------------------------------
DEFAULT_PENALTIES ==
    [experience_level_mismatch        |-> Dec(25, 100),
     experience_significantly_lacking |-> Dec(20, 100),
     domain_mismatch                  |-> Dec(20, 100),
     role_mismatch                    |-> Dec(15, 100),
     required_skill_missing           |-> Dec(15, 100),
     required_skill_critical_missing  |-> Dec(25, 100)]

EXPERIENCE_PENALTY_CAP == Dec(15, 100)

GRADE_THRESHOLDS ==
    [excellent |-> Dec(85, 100), good |-> Dec(70, 100), fair |-> Dec(55, 100),
     caution |-> Dec(40, 100), poor |-> FZero]

\* ------------------------------------------------------------------------
\* services/ml/penalties.py: PenaltyService
\* ------------------------------------------------------------------------
level_ranges == (junior :> <<0, 3>>) @@ (mid :> <<3, 7>>) @@ (senior :> <<7, 100>>)

\* lines 60-67: below half the minimum or above 1.5 times the maximum
years_outside_range(candidate_years, min_years, max_years) ==
    IF FLt(candidate_years, FMul(min_years, Dec(5, 10))) THEN TRUE
    ELSE IF FLt(FMul(max_years, Dec(15, 10)), candidate_years) THEN TRUE
    ELSE FALSE

years_outside(candidate_years, range) ==
    years_outside_range(FromInt(candidate_years), FromInt(range[1]), FromInt(range[2]))

detect_experience_level_mismatch(job, resume) ==
    IF job.experience_level = <<>> THEN FALSE
    ELSE years_outside(OrZero(resume.extracted_experience_years),
                       Get(level_ranges, Lower(job.experience_level), <<0, 100>>))

detect_experience_significantly_lacking(job, resume) ==
    LET required_years  == OrZero(job.min_experience_years)
        candidate_years == OrZero(resume.extracted_experience_years)
    IN  IF required_years = 0 THEN FALSE
        ELSE FLt(FromInt(candidate_years), FMul(FromInt(required_years), Dec(7, 10)))

\* job.requirements is a JSON column: a JSON array is the record
\* [json_array |-> items].  "requirements = job.requirements or {}" keeps a
\* non-empty array, and requirements.get raises AttributeError on it.
IsJsonArray(value) == DOMAIN value = {"json_array"}

calculate_penalties_raises(job) ==
    IsJsonArray(job.requirements) /\ job.requirements.json_array # <<>>

calculate_required_skill_missing_ratio(job, resume) ==
    LET required_conditions == Get(job.requirements, "required", <<>>)
        resume_skills_lower == {Lower(s) : s \in Range(resume.extracted_skills)}
        found(req_lower) == \E skill \in resume_skills_lower :
                                IsSubstring(skill, req_lower) \/ IsSubstring(req_lower, skill)
        missing_count == Cardinality({i \in DOMAIN required_conditions :
                                          ~found(Lower(required_conditions[i]))})
    IN  IF required_conditions = <<>> THEN FZero
        ELSE FDiv(FromInt(missing_count), FromInt(Len(required_conditions)))

experience_keys == <<"experience_level_mismatch", "experience_significantly_lacking">>

\* sum(dict.get(k, 0.0) for k in keys), added left to right
RECURSIVE SumOver(_, _)
SumOver(dict, keys) ==
    IF keys = <<>> THEN FZero
    ELSE FAdd(SumOver(dict, SubSeq(keys, 1, Len(keys) - 1)), Get(dict, keys[Len(keys)], FZero))

level_mismatch_penalty(job, resume) ==
    IF detect_experience_level_mismatch(job, resume)
    THEN "experience_level_mismatch" :> DEFAULT_PENALTIES.experience_level_mismatch
    ELSE EmptyDict

\* the penalty emitted from the ratio 0.5 on
critical_missing_penalty_inclusive(missing_ratio) ==
    IF FLe(Dec(5, 10), missing_ratio)
    THEN "required_skill_critical_missing" :> FMul(Dec(25, 100), missing_ratio)
    ELSE EmptyDict

\* lines 35-40
critical_missing_penalty(missing_ratio) ==
    IF FLt(Dec(5, 10), missing_ratio)
    THEN "required_skill_critical_missing" :> FMul(Dec(25, 100), missing_ratio)
    ELSE EmptyDict

significantly_lacking_penalty(job, resume) ==
    IF detect_experience_significantly_lacking(job, resume)
    THEN "experience_significantly_lacking" :> DEFAULT_PENALTIES.experience_significantly_lacking
    ELSE EmptyDict

\* penalties before the cap step (lines 28-45)
uncapped_penalties(job, resume) ==
    level_mismatch_penalty(job, resume)
    @@ critical_missing_penalty(calculate_required_skill_missing_ratio(job, resume))
    @@ significantly_lacking_penalty(job, resume)

calculate_penalties_uncapped(job, resume) == uncapped_penalties(job, resume)

\* lines 50-52: the experience penalties times scale, rounded to 6 places
scale_experience(penalties, scale) ==
    [k \in DOMAIN penalties |->
        IF k \in Range(experience_keys) THEN Round6(FMul(penalties[k], scale))
        ELSE penalties[k]]

\* lines 47-52
cap_experience(penalties, exp_sum, cap) ==
    IF FLt(cap, exp_sum) /\ FLt(FZero, exp_sum)
    THEN scale_experience(penalties, FDiv(cap, exp_sum))
    ELSE penalties

capped_penalties(penalties) ==
    cap_experience(penalties, SumOver(penalties, experience_keys), EXPERIENCE_PENALTY_CAP)

calculate_penalties(job, resume) == capped_penalties(uncapped_penalties(job, resume))

\* the order in which calculate_penalties inserts its keys
penalty_keys ==
    <<"experience_level_mismatch", "required_skill_critical_missing",
      "experience_significantly_lacking">>

\* ------------------------------------------------------------------------
\* Jobs and resumes given to the penalty engine
\* ------------------------------------------------------------------------
ExperienceLevels == {<<>>, junior, mid, senior, SeniorCapitalised, lead}

MinExperienceYears == {NoYears} \cup {Years(y) : y \in {0, 3, 5, 10}}

CandidateYears == {NoYears} \cup {Years(y) : y \in {0, 1, 2, 5, 7, 8, 11}}

Requirements ==
    {EmptyDict} \cup {[required |-> l] : l \in {<<>>, <<python>>, <<PythonCapitalised, java>>,
                                                <<python, java, sql>>,
                                                <<python, java, sql, docker, express, react>>}}

ExtractedSkills == {<<>>, <<PythonCapitalised>>, <<java, sql>>}

PenaltyJobs ==
    [experience_level : ExperienceLevels, min_experience_years : MinExperienceYears,
     requirements : Requirements]

PenaltyResumes == [extracted_experience_years : CandidateYears, extracted_skills : ExtractedSkills]

InitScoring ==
    /\ settings \in [JWT_SECRET_KEY : {CHOOSE s \in Secrets : TRUE},
                     SECTIONAL_WEIGHTS : WeightTables]
    /\ pc = "idle"
    /\ call = NoCall
    /\ result = NoResult
    /\ resume_sentence_cache = EmptyCache
    /\ resume_sentence = NoRows
    /\ resume_table = NoRows
    /\ job_sentence = NoRows

CalculatePenalties ==
    /\ pc = "idle"
    /\ \E job \in PenaltyJobs, resume \in PenaltyResumes :
           /\ call' = [op |-> "calculate_penalties", job |-> job, resume |-> resume]
           /\ result' = [status |-> "ok", penalties |-> calculate_penalties(job, resume)]
    /\ pc' = "done"
    /\ UNCHANGED <<settings, resume_sentence_cache, resume_sentence, resume_table, job_sentence>>

NextPenalty == CalculatePenalties

SpecPenalty == InitScoring /\ [][NextPenalty]_vars

\* C7 (as claimed): in the map returned by calculate_penalties,
\* experience_level_mismatch + experience_significantly_lacking is at most
\* EXPERIENCE_PENALTY_CAP, an absent penalty counting as 0.
C7_ExperiencePenaltiesWithinCap ==
    call.op = "calculate_penalties" =>
        FLe(FAdd(Get(result.penalties, "experience_level_mismatch", FZero),
                 Get(result.penalties, "experience_significantly_lacking", FZero)),
            EXPERIENCE_PENALTY_CAP)

LoneLevelMismatch ==
    /\ call.op = "calculate_penalties"
    /\ "experience_level_mismatch" \in DOMAIN result.penalties
    /\ "experience_significantly_lacking" \notin DOMAIN result.penalties

\* C8 (amended): when experience_level_mismatch is the only experience
\* penalty that fires, the cap step rescales it: its reported magnitude is
\* EXPERIENCE_PENALTY_CAP (0.15), not the configured 0.25.
C8_LoneMismatchCapped ==
    LoneLevelMismatch => result.penalties["experience_level_mismatch"] = EXPERIENCE_PENALTY_CAP

\* A junior posting without minimum years, candidate with 8 years: only the
\* level mismatch fired and it is reported as 0.15.
C8_Witness ==
    /\ LoneLevelMismatch
    /\ call.job.experience_level = junior
    /\ call.job.min_experience_years = NoYears
    /\ call.resume.extracted_experience_years = Years(8)
    /\ result.penalties["experience_level_mismatch"] = Dec(15, 100)

\* C8 (as claimed): a lone experience_level_mismatch is left unchanged by the
\* cap step, its reported magnitude is 0.25.
C8_LoneMismatchUnchanged ==
    LoneLevelMismatch =>
        result.penalties["experience_level_mismatch"]
            = DEFAULT_PENALTIES["experience_level_mismatch"]

\* ------------------------------------------------------------------------
\* Sentences, the embedding model and the embedding client
\* (services/ml/embedding.py, embedding-service/main.py)
\*
\* The embedding model is a fixed function of the text.  A vector <<x, y>>
\* stands for the unit vector (x/5, y/5); numpy results are the exact
\* results rounded once to the precision numpy computes in.
\* ------------------------------------------------------------------------
CondJava == <<74, 97, 118, 97, 32, 83, 112, 114, 105, 110, 103, 32, 51, 121>>  \* "Java Spring 3y"

CondPython == <<112, 121, 116, 104, 111, 110, 32, 97, 112, 105, 32, 115, 101, 114, 118, 101, 114>>  \* "python api server"

CondMysql == <<77, 121, 83, 81, 76, 32, 116, 117, 110, 105, 110, 103>>  \* "MySQL tuning"

CondTeam == <<116, 101, 97, 109, 119, 111, 114, 107>>  \* "teamwork"

SentJava == <<106, 97, 118, 97, 32, 100, 101, 118, 101, 108, 111, 112, 101, 114>>  \* "java developer"

SentSql == <<115, 113, 108, 32, 114, 101, 112, 111, 114, 116, 115>>  \* "sql reports"

SentTeam == <<116, 101, 97, 109, 32, 108, 101, 97, 100>>  \* "team lead"

SentOther == <<109, 97, 114, 107, 101, 116, 105, 110, 103>>  \* "marketing"

team == <<116, 101, 97, 109>>  \* "team"

JobTitle == <<74, 97, 118, 97, 32, 98, 97, 99, 107, 101, 110, 100, 32, 101, 110, 103, 105, 110, 101, 101, 114>>  \* "Java backend engineer"

SummaryText == <<106, 97, 118, 97, 32, 98, 97, 99, 107, 101, 110, 100, 32, 32, 100, 101, 118, 101, 108, 111, 112, 101, 114>>  \* "java backend  developer"

One == FromInt(1)

\* the decimal literals n/100 of the source, as floats
Hundredths == [n \in 0..150 |-> Dec(n, 100)]

IsSpace(c) == c \in {9, 10, 11, 12, 13, 32}

\* not text.strip()
IsBlank(text) == \A i \in 1..Len(text) : IsSpace(text[i])

\* " ".join(str(txt).strip().split())
CollapseSpaces(s) ==
    LET keep == {i \in 1..Len(s) :
                    \/ ~IsSpace(s[i])
                    \/ /\ i > 1
                       /\ ~IsSpace(s[i - 1])
                       /\ \E j \in (i + 1)..Len(s) : ~IsSpace(s[j])}
        nth(k) == CHOOSE p \in keep : Cardinality({q \in keep : q <= p}) = k
    IN  [k \in 1..Cardinality(keep) |-> IF IsSpace(s[nth(k)]) THEN 32 ELSE s[nth(k)]]

\* str(n) for 0 <= n < 1000
IntToStr(n) ==
    IF n < 10 THEN <<48 + n>>
    ELSE IF n < 100 THEN <<48 + (n \div 10), 48 + (n % 10)>>
    ELSE <<48 + (n \div 100), 48 + ((n \div 10) % 10), 48 + (n % 10)>>

\* repr of a list of plain strings
RECURSIVE ReprItems(_)
ReprItems(l) ==
    IF l = <<>> THEN <<>>
    ELSE <<39>> \o Head(l) \o <<39>>
         \o (IF Len(l) > 1 THEN <<44, 32>> ELSE <<>>) \o ReprItems(Tail(l))

ReprList(l) == <<91>> \o ReprItems(l) \o <<93>>

\* f"{d or ''}" for a JSON object with the one key 'required'
ReprRequirements(d) ==
    IF d = EmptyDict THEN <<>>
    ELSE <<123, 39, 114, 101, 113, 117, 105, 114, 101, 100, 39, 58, 32>> \o ReprList(d.required) \o <<125>>

EmbeddingModel(text) ==
    LET t == Lower(text)
    IN  IF IsSubstring(java, t) THEN <<5, 0>>
        ELSE IF IsSubstring(python, t) THEN <<4, 3>>
        ELSE IF IsSubstring(sql, t) THEN <<3, 4>>
        ELSE IF IsSubstring(team, t) THEN <<0, 5>>
        ELSE <<-3, 4>>

ServiceStates == {"up", "down"}

\* EmbeddingService.generate_embedding for a text of at most max_chars = 4000
\* characters: the service refuses a blank text (its 400 is re-raised as 500
\* by the handler), and the client raises Exception for every answer other
\* than 200 and for every failure of the request
generate_embedding(service, text) ==
    IF service = "down" \/ IsBlank(text) THEN Fail("Exception: Error generating embedding")
    ELSE Ok(EmbeddingModel(text))

Dot(a, b) == a[1] * b[1] + a[2] * b[2]

\* five times the Euclidean norm
Norm(a) == CHOOSE n \in 0..5 : n * n = Dot(a, a)

\* np.clip(similarity, 0.0, 1.0)
clip_unit(similarity) == FMinOf(FMaxOf(similarity, FZero), One)

\* EmbeddingService.cosine_similarity: the dot product clipped to [0, 1]
cosine_similarity(embedding1, embedding2) ==
    clip_unit(FDiv(FromInt(Dot(embedding1, embedding2)), FromInt(5 * 5)))

\* ------------------------------------------------------------------------
\* services/ml/scoring.py: resume sentences and the best sentence match
\* ------------------------------------------------------------------------
NoEmbedding == <<>>

\* _collect_resume_sentences_with_sections for a resume whose raw_text is ''
\* and whose parsed_data is NULL, a JSON array, or an object with the keys
\* summary and skills
collect_resume_sentences_with_sections(resume) ==
    IF resume.parsed_data.type = "list"
    THEN Fail("AttributeError: 'list' object has no attribute 'get'")
    ELSE LET pd    == resume.parsed_data
             texts == IF pd.type = "null" THEN <<>> ELSE <<pd.summary>> \o pd.skills
             secs  == IF pd.type = "null" THEN <<>>
                      ELSE <<"summary">> \o [i \in 1..Len(pd.skills) |-> "skills"]
             s(i)  == CollapseSpaces(texts[i])
             added == {i \in 1..Len(texts) :
                          /\ texts[i] # <<>>
                          /\ 10 <= Len(s(i)) /\ Len(s(i)) <= 300
                          /\ \A j \in 1..(i - 1) : s(j) # s(i)}
             nth(k) == CHOOSE p \in added : Cardinality({q \in added : q <= p}) = k
         IN  Ok([lines    |-> [k \in 1..Cardinality(added) |-> s(nth(k))],
                 sections |-> [k \in 1..Cardinality(added) |-> secs[nth(k)]]])

\* _load_resume_sentences: the stored ResumeSentence rows in idx order; the
\* indexer stores them with section NULL
load_resume_sentences(resume) ==
    [lines |-> resume.sentences, sections |-> [i \in 1..Len(resume.sentences) |-> "raw"]]

embed_texts(service, texts) ==
    LET Vector(e) == IF e.ok THEN e.val ELSE NoEmbedding
    IN  [i \in 1..Len(texts) |-> Vector(generate_embedding(service, texts[i]))]

embedded_sentences(service, rows) ==
    Ok([lines |-> rows.lines, embs |-> embed_texts(service, rows.lines),
        sections |-> rows.sections])

collected_sentences(service, collected) ==
    IF ~collected.ok THEN collected ELSE embedded_sentences(service, collected.val)

loaded_sentences(service, resume, db) ==
    IF db.lines # <<>> THEN embedded_sentences(service, db)
    ELSE collected_sentences(service, collect_resume_sentences_with_sections(resume))

\* _get_cached_sentences on a new ScoringService (empty cache)
get_cached_sentences(service, resume) ==
    loaded_sentences(service, resume, load_resume_sentences(resume))

\* lines 692-699: the similarity numpy computes in float32
sentence_similarity(se, cond_emb, na, nb) ==
    IF na = 0 \/ nb = 0 THEN FZero
    ELSE FDivP(FromInt(Dot(se, cond_emb)), FromInt(na * nb), SinglePrecision)

better_match(best, sim, sent) == IF FLt(best.sim, sim) THEN [sim |-> sim, sent |-> sent] ELSE best

compared_match(best, se, cond_emb, sent) ==
    IF se = NoEmbedding THEN best
    ELSE better_match(best, sentence_similarity(se, cond_emb, Norm(se), Norm(cond_emb)), sent)

RECURSIVE BestFrom(_, _, _, _, _)
BestFrom(cond_emb, sent_lines, sent_embeddings, i, best) ==
    IF i > Min(Len(sent_lines), Len(sent_embeddings)) THEN best
    ELSE BestFrom(cond_emb, sent_lines, sent_embeddings, i + 1,
                  compared_match(best, sent_embeddings[i], cond_emb, sent_lines[i]))

clipped_match(best) == IF FLt(best.sim, FZero) THEN [best EXCEPT !.sim = FZero] ELSE best

match_for(cond_emb, sent_lines, sent_embeddings) ==
    IF ~cond_emb.ok THEN [sim |-> FZero, sent |-> <<>>]
    ELSE clipped_match(BestFrom(cond_emb.val, sent_lines, sent_embeddings, 1,
                                [sim |-> FromInt(-1), sent |-> <<>>]))

best_sentence_match(service, condition, sent_lines, sent_embeddings) ==
    match_for(generate_embedding(service, condition), sent_lines, sent_embeddings)

\* ------------------------------------------------------------------------
\* services/matching_service.py: section scores
\* ------------------------------------------------------------------------
Sections == {"required", "preferred", "experience"}

\* keyword and threshold in hundredths
tech_thresholds ==
    << << <<106, 97, 118, 97>>, 75 >>,  \* java
      << <<107, 111, 116, 108, 105, 110>>, 75 >>,  \* kotlin
      << <<115, 112, 114, 105, 110, 103>>, 75 >>,  \* spring
      << <<112, 121, 116, 104, 111, 110>>, 62 >>,  \* python
      << <<102, 97, 115, 116, 97, 112, 105>>, 62 >>,  \* fastapi
      << <<100, 106, 97, 110, 103, 111>>, 62 >>,  \* django
      << <<110, 111, 100, 101, 46, 106, 115>>, 70 >>,  \* node.js
      << <<101, 120, 112, 114, 101, 115, 115>>, 70 >>,  \* express
      << <<114, 101, 97, 99, 116>>, 75 >>,  \* react
      << <<110, 101, 120, 116, 46, 106, 115>>, 75 >>,  \* next.js
      << <<116, 121, 112, 101, 115, 99, 114, 105, 112, 116>>, 75 >>,  \* typescript
      << <<118, 117, 101, 46, 106, 115>>, 70 >>,  \* vue.js
      << <<97, 110, 103, 117, 108, 97, 114>>, 70 >>,  \* angular
      << <<102, 108, 117, 116, 116, 101, 114>>, 70 >>,  \* flutter
      << <<97, 110, 100, 114, 111, 105, 100>>, 75 >>,  \* android
      << <<105, 111, 115>>, 75 >>,  \* ios
      << <<109, 121, 115, 113, 108>>, 55 >>,  \* mysql
      << <<112, 111, 115, 116, 103, 114, 101, 115, 113, 108>>, 55 >>,  \* postgresql
      << <<109, 111, 110, 103, 111, 100, 98>>, 55 >>,  \* mongodb
      << <<97, 119, 115>>, 65 >>,  \* aws
      << <<103, 99, 112>>, 65 >>,  \* gcp
      << <<97, 122, 117, 114, 101>>, 65 >>,  \* azure
      << <<100, 111, 99, 107, 101, 114>>, 65 >>,  \* docker
      << <<107, 117, 98, 101, 114, 110, 101, 116, 101, 115>>, 70 >>,  \* kubernetes
      << <<116, 101, 110, 115, 111, 114, 102, 108, 111, 119>>, 62 >>,  \* tensorflow
      << <<112, 121, 116, 111, 114, 99, 104>>, 62 >>,  \* pytorch
      << <<111, 112, 101, 110, 99, 118>>, 62 >>,  \* opencv
      << <<108, 97, 110, 103, 99, 104, 97, 105, 110>>, 62 >>,  \* langchain
      << <<108, 97, 110, 103, 103, 114, 97, 112, 104>>, 62 >>  \* langgraph
    >>

get_dynamic_threshold(condition, section) ==
    LET Highest(found) == CHOOSE max_threshold \in found : \A t \in found : t <= max_threshold
        Thresholds(condition_lower) ==
            {60} \cup {tech_thresholds[i][2] : i \in
                           {j \in DOMAIN tech_thresholds :
                               IsSubstring(tech_thresholds[j][1], condition_lower)}}
    IN  Dec(Highest(Thresholds(Lower(condition))), 100)

\* a query that leaves out the filter on JobSentence.section
get_job_sentences_of_any_section(job, section) ==
    IF ~job.session THEN <<>> ELSE job.sentences.required

\* the JobSentence rows of the section in idx order; [] for a detached job
get_job_sentences_by_section(job, section) ==
    IF ~job.session THEN <<>> ELSE job.sentences[section]

EmptyEvidence == [matched |-> <<>>, missing |-> <<>>, detailed_analysis |-> <<>>]

\* an unmatched condition given no credit
condition_score_uncredited(d, section) == IF d.matched THEN One ELSE FZero

\* the partial score of a preferred or experience condition without the
\* factor 0.5
condition_score_unhalved(d, section) ==
    IF d.matched THEN One
    ELSE FMaxOf(FZero, FDiv(FSub(d.similarity_score, Hundredths[55]),
                            FSub(Hundredths[65], Hundredths[55])))

\* the score of one analysed condition (lines 414-427)
condition_score(d, section) ==
    IF d.matched THEN One
    ELSE IF section = "required"
    THEN FMul(FMinOf(One, FDiv(d.similarity_score, Hundredths[60])), Hundredths[50])
    ELSE FMul(FMaxOf(FZero, FDiv(FSub(d.similarity_score, Hundredths[55]),
                                 FSub(Hundredths[65], Hundredths[55]))),
              Hundredths[50])

\* one row of detailed_analysis (lines 383-411)
analysis_row(condition, cached, best, threshold, matched) ==
    [condition |-> condition,
     matched |-> matched,
     similarity_score |-> best.sim,
     matched_sentence |-> best.sent,
     matched_section |->
         IF \E i \in DOMAIN cached.lines : cached.lines[i] = best.sent
         THEN cached.sections[CHOOSE i \in DOMAIN cached.lines :
                  /\ cached.lines[i] = best.sent
                  /\ \A j \in 1..(i - 1) : cached.lines[j] # best.sent]
         ELSE "unknown",
     match_type |-> IF matched THEN "semantic" ELSE "none",
     threshold_used |-> threshold]

compared_condition(condition, cached, best, threshold) ==
    analysis_row(condition, cached, best, threshold, FLe(threshold, best.sim))

analyse_condition(service, condition, section, cached) ==
    compared_condition(condition, cached,
                       best_sentence_match(service, condition, cached.lines, cached.embs),
                       get_dynamic_threshold(condition, section))

\* lines 428-441: the mean score and the evidence
section_result(job_sentences, detailed_analysis, matched_rows, missing_rows, scores) ==
    [score |-> FDiv(FSum(scores), FromInt(Len(scores))),
     evidence |->
         [matched |-> [i \in 1..Len(matched_rows) |-> matched_rows[i].condition],
          missing |-> [i \in 1..Len(missing_rows) |-> missing_rows[i].condition],
          detailed_analysis |-> detailed_analysis,
          match_rate |-> IntToStr(Len(matched_rows)) \o <<47>>
                         \o IntToStr(Len(job_sentences))]]

analysed_section(job_sentences, detailed_analysis, section) ==
    section_result(job_sentences, detailed_analysis,
                   SelectSeq(detailed_analysis, LAMBDA d : d.matched),
                   SelectSeq(detailed_analysis, LAMBDA d : ~d.matched),
                   [i \in 1..Len(detailed_analysis) |->
                       condition_score(detailed_analysis[i], section)])

scored_section(service, job_sentences, cached, section) ==
    IF job_sentences = <<>> THEN [score |-> FZero, evidence |-> EmptyEvidence]
    ELSE IF ~cached.ok THEN [score |-> FZero, evidence |-> EmptyEvidence]
    ELSE analysed_section(job_sentences,
                          [i \in 1..Len(job_sentences) |->
                              analyse_condition(service, job_sentences[i], section,
                                                cached.val)],
                          section)

calculate_section_score_by_sentences(service, job, resume, section) ==
    scored_section(service, get_job_sentences_by_section(job, section),
                   get_cached_sentences(service, resume), section)

\* ------------------------------------------------------------------------
\* services/matching_service.py: the pair score
\* ------------------------------------------------------------------------
\* _calculate_overall_similarity: any failure is logged and gives 0.0
calculate_overall_similarity(service, job, resume) ==
    LET job_text == job.title \o <<32>> \o <<32>> \o ReprRequirements(job.requirements)
                    \o <<32>>
        pd == resume.parsed_data
        resume_text == IF pd.type = "null" THEN <<32, 32, 32>>
                       ELSE pd.summary \o <<32>> \o <<32>> \o ReprList(pd.skills) \o <<32>>
        job_embedding    == generate_embedding(service, job_text)
        resume_embedding == generate_embedding(service, resume_text)
    IN  IF pd.type = "list" THEN FZero
        ELSE IF ~job_embedding.ok \/ ~resume_embedding.ok THEN FZero
        ELSE cosine_similarity(job_embedding.val, resume_embedding.val)

\* ScoringService.calculate_education_score, calculate_certification_score
\* and calculate_language_score
calculate_education_score == Hundredths[50]

assign_grade_fair_first(overall_score, thresholds) ==
    IF FLe(thresholds.excellent, overall_score) THEN "excellent"
    ELSE IF FLe(thresholds.fair, overall_score) THEN "fair"
    ELSE IF FLe(thresholds.good, overall_score) THEN "good"
    ELSE IF FLe(thresholds.caution, overall_score) THEN "caution"
    ELSE "poor"

assign_grade(overall_score, thresholds) ==
    IF FLe(thresholds.excellent, overall_score) THEN "excellent"
    ELSE IF FLe(thresholds.good, overall_score) THEN "good"
    ELSE IF FLe(thresholds.fair, overall_score) THEN "fair"
    ELSE IF FLe(thresholds.caution, overall_score) THEN "caution"
    ELSE "poor"

\* sum(cat["score"] * cat["weight"] for cat in category_scores.values()):
\* the built-in sum starts from 0 and adds the terms in insertion order
Term(cat) == FMul(cat.score, cat.weight)

WeightedSum(category_scores) ==
    FAdd(FAdd(FAdd(FAdd(FAdd(FAdd(FAdd(FZero,
        Term(category_scores.required_match)),
        Term(category_scores.preferred_match)),
        Term(category_scores.experience_match)),
        Term(category_scores.overall_similarity)),
        Term(category_scores.education)),
        Term(category_scores.certification)),
        Term(category_scores.language))

hard_gate_inclusive(required_score, weighted_sum) ==
    IF FLe(required_score, Hundredths[50]) THEN FMul(weighted_sum, Hundredths[50])
    ELSE weighted_sum

\* lines 250-251
hard_gate(required_score, weighted_sum) ==
    IF FLt(required_score, Hundredths[50]) THEN FMul(weighted_sum, Hundredths[50])
    ELSE weighted_sum

final_score_unclamped(weighted_sum, penalty_sum) == FSub(weighted_sum, penalty_sum)

\* line 256
final_score_of(weighted_sum, penalty_sum) == FMaxOf(FZero, FSub(weighted_sum, penalty_sum))

\* FeedbackGenerator.generate_feedback takes (job, resume, matching_evidence,
\* overall_score, grade); the call at line 276 passes three arguments
FeedbackArity == 5

FeedbackError == "feedback generation failed"

generate_feedback_call(arguments) ==
    IF Len(arguments) # FeedbackArity
    THEN Fail("TypeError: generate_feedback() missing 2 required positional arguments")
    ELSE Ok("feedback")

\* lines 259-293: grade, evidence and the returned fields; locals are the
\* local variables of lines 244-256, as they stood in turn
scored_result(category_scores, weighted_sum, gated_sum, penalties, penalty_sum, final_score) ==
    [status |-> "ok",
     overall_score |-> DecimalOfStr(final_score),
     grade |-> assign_grade(final_score, GRADE_THRESHOLDS),
     category_scores |-> category_scores,
     matching_evidence |->
         [required_skills     |-> category_scores.required_match,
          preferred_skills    |-> category_scores.preferred_match,
          experience_evidence |-> category_scores.experience_match,
          sectional_scores |->
              [required_embedding   |-> category_scores.required_match.score,
               preferred_embedding  |-> category_scores.preferred_match.score,
               experience_embedding |-> category_scores.experience_match.score]],
     penalties |-> penalties,
     algorithm_version |-> "v3.0-sectional-sentences",
     locals |-> [weighted_sum |-> weighted_sum, gated_sum |-> gated_sum,
                 penalty_sum |-> penalty_sum, final_score |-> final_score]]

\* lines 255-256
penalised_score(category_scores, weighted_sum, gated_sum, penalties, penalty_sum) ==
    scored_result(category_scores, weighted_sum, gated_sum, penalties, penalty_sum,
                  final_score_of(gated_sum, penalty_sum))

gated_score(category_scores, weighted_sum, gated_sum, penalties) ==
    penalised_score(category_scores, weighted_sum, gated_sum, penalties,
                    SumOver(penalties, penalty_keys))

\* lines 244-254
weighted_score(category_scores, weighted_sum, job, resume) ==
    gated_score(category_scores, weighted_sum,
                hard_gate(category_scores.required_match.score, weighted_sum),
                calculate_penalties(job, resume))

summed_score(category_scores, job, resume) ==
    weighted_score(category_scores, WeightedSum(category_scores), job, resume)

\* lines 204-241
category_scores_of(weights, required_score, preferred_score, experience_score,
                   overall_similarity, fixed_score) ==
    [required_match |->
         [score |-> required_score.score, weight |-> weights.required_match]
         @@ required_score.evidence,
     preferred_match |->
         [score |-> preferred_score.score, weight |-> weights.preferred_match]
         @@ preferred_score.evidence,
     experience_match |->
         [score |-> experience_score.score, weight |-> weights.experience_match]
         @@ experience_score.evidence,
     overall_similarity |->
         [score |-> overall_similarity, weight |-> weights.overall_similarity],
     education     |-> [score |-> fixed_score, weight |-> FZero],
     certification |-> [score |-> fixed_score, weight |-> FZero],
     language      |-> [score |-> fixed_score, weight |-> FZero]]

\* steps 1-9 (lines 194-271): the scores and the evidence
score_pair(weights, service, job, resume) ==
    IF WeightLookupRaises(weights) THEN Raised("KeyError: 'required_match'")
    ELSE IF calculate_penalties_raises(job)
    THEN Raised("AttributeError: 'list' object has no attribute 'get'")
    ELSE summed_score(
             category_scores_of(
                 weights,
                 calculate_section_score_by_sentences(service, job, resume, "required"),
                 calculate_section_score_by_sentences(service, job, resume, "preferred"),
                 calculate_section_score_by_sentences(service, job, resume, "experience"),
                 calculate_overall_similarity(service, job, resume),
                 calculate_education_score),
             job, resume)

\* the feedback step taking part in the grade
with_feedback_regrading(scored, job, resume, generate_feedback) ==
    IF scored.status # "ok" \/ ~generate_feedback THEN scored
    ELSE [scored EXCEPT !.grade = "reviewed",
                        !.matching_evidence = [ai_feedback |-> FeedbackError] @@ @]

\* step 10 (lines 273-280): the feedback is attached to the evidence, and a
\* failure to produce it is replaced by a fixed message
with_feedback(scored, job, resume, generate_feedback) ==
    LET feedback == generate_feedback_call(<<job, resume, scored.matching_evidence>>)
    IN  IF scored.status # "ok" \/ ~generate_feedback THEN scored
        ELSE [scored EXCEPT !.matching_evidence =
                  [ai_feedback |-> IF feedback.ok THEN feedback.val ELSE FeedbackError]
                  @@ scored.matching_evidence]

calculate_matching_score(weights, service, job, resume, generate_feedback) ==
    with_feedback(score_pair(weights, service, job, resume), job, resume, generate_feedback)

\* ------------------------------------------------------------------------
\* Jobs and resumes given to the scorer
\* ------------------------------------------------------------------------
\* JobSentence.section is a free String(50) column; the scorer reads the rows
\* of the sections required, preferred and experience.
MaxConditions == 2

ParsedData ==
    {[type |-> "null"], [type |-> "list"],
     [type |-> "dict", summary |-> SummaryText, skills |-> <<python>>]}

StoredSentences == {<<>>, <<SentJava>>, <<SentSql, SentTeam>>, <<SentOther>>}

SectionJobs ==
    {[session |-> s, sentences |-> [k \in Sections |-> l]] :
        s \in BOOLEAN, l \in SeqsUpTo({CondJava, CondPython, CondMysql, CondTeam}, MaxConditions)}

SectionResumes == [parsed_data : ParsedData, sentences : StoredSentences]

CalculateSectionScore ==
    /\ pc = "idle"
    /\ \E job \in SectionJobs, resume \in SectionResumes, section \in Sections,
          service \in ServiceStates :
           /\ call' = [op |-> "calculate_section_score", job |-> job, resume |-> resume,
                       section |-> section, service |-> service]
           /\ result' = calculate_section_score_by_sentences(service, job, resume, section)
    /\ pc' = "done"
    /\ UNCHANGED <<settings, resume_sentence_cache, resume_sentence, resume_table, job_sentence>>

NextSection == CalculateSectionScore

SpecSection == InitScoring /\ [][NextSection]_vars

ScoreJobs ==
    {[session |-> TRUE, title |-> JobTitle,
      sentences |-> [required |-> r, preferred |-> p, experience |-> e],
      experience_level |-> x[1], min_experience_years |-> x[2], requirements |-> q] :
        r \in SeqsUpTo({CondJava, CondPython}, MaxConditions),
        p \in {<<>>, <<CondTeam>>},
        e \in {<<>>, <<CondJava>>},
        x \in {<< <<>>, NoYears >>, << senior, Years(5) >>},
        q \in {EmptyDict, [required |-> <<python, java>>]}}

ScoreResumes ==
    [parsed_data : {[type |-> "null"],
                    [type |-> "dict", summary |-> SummaryText, skills |-> <<python>>]},
     sentences : {<<>>, <<SentJava>>, <<SentSql, SentTeam>>},
     extracted_experience_years : {Years(1), Years(8)},
     extracted_skills : {<<>>}]

CalculateMatchingScore ==
    /\ pc = "idle"
    /\ \E job \in ScoreJobs, resume \in ScoreResumes, service \in ServiceStates :
           \E scored \in {score_pair(settings.SECTIONAL_WEIGHTS, service, job, resume)} :
               \E generate_feedback \in BOOLEAN :
                   /\ call' = [op |-> "calculate_matching_score", job |-> job,
                               resume |-> resume, service |-> service,
                               generate_feedback |-> generate_feedback]
                   /\ result' = with_feedback(scored, job, resume, generate_feedback)
    /\ pc' = "done"
    /\ UNCHANGED <<settings, resume_sentence_cache, resume_sentence, resume_table, job_sentence>>

NextScore == CalculateMatchingScore

SpecScore == InitScoring /\ [][NextScore]_vars

\* ------------------------------------------------------------------------
\* Properties of the section score and of the pair score
\* ------------------------------------------------------------------------
SectionScored == call.op = "calculate_section_score"

\* C9 (as claimed): on every return path of
\* _calculate_section_score_by_sentences each condition of the section is
\* in exactly one of the evidence lists matched and missing: the lists are
\* disjoint and together hold exactly the section's conditions.
C9_EvidencePartition ==
    SectionScored =>
        LET conditions == get_job_sentences_by_section(call.job, call.section)
            matched == result.evidence.matched
            missing == result.evidence.missing
        IN  /\ Range(matched) \cap Range(missing) = {}
            /\ Range(matched) \cup Range(missing) = Range(conditions)
            /\ Len(matched) + Len(missing) = Len(conditions)

PairScored == call.op = "calculate_matching_score"

ReturnedScore == PairScored /\ result.status = "ok"

\* C4 (as claimed): calculate_matching_score returns a result for every job
\* and resume and never raises.
C4_AlwaysReturns == PairScored => result.status = "ok"

C11_EmptyRequiredNeutral ==
    (ReturnedScore /\ call.job.sentences.required = <<>>) =>
        /\ result.category_scores.required_match.score = Dec(5, 10)
        /\ result.locals.gated_sum = result.locals.weighted_sum

\* ------------------------------------------------------------------------
\* services/matching_service.py: search_jobs_for_resume, and its endpoint
\* POST /search-jobs (api/v1/matching.py)
\*
\* The store holds the resume rows with the id asked for (none or one) and
\* a set of job postings.  A query
\* without ORDER BY returns its rows in an order the store chooses.
\* ------------------------------------------------------------------------
MaxJobs == 3

Limits == {1, 2}

ResumeId == <<114, 49>>  \* "r1"

\* job ids "1" .. "6"
JobIds == {<<48 + n>> : n \in 1..6}

\* str < str by code points
RECURSIVE StrLess(_, _)
StrLess(a, b) ==
    IF b = <<>> THEN FALSE
    ELSE IF a = <<>> THEN TRUE
    ELSE IF Head(a) # Head(b) THEN Head(a) < Head(b)
    ELSE StrLess(Tail(a), Tail(b))

SearchJob(id, required, requirements, is_active) ==
    [id |-> id, is_active |-> is_active, session |-> TRUE, title |-> JobTitle,
     location |-> None, company |-> None,
     sentences |-> [required |-> required, preferred |-> <<>>, experience |-> <<>>],
     experience_level |-> <<>>, min_experience_years |-> NoYears,
     requirements |-> requirements]

\* three postings with the same content, one with another required
\* condition, one whose requirements column holds a JSON array, one inactive
SearchJobs ==
    {SearchJob(<<49>>, <<CondJava>>, EmptyDict, TRUE),
     SearchJob(<<50>>, <<CondJava>>, EmptyDict, TRUE),
     SearchJob(<<51>>, <<CondJava>>, EmptyDict, TRUE),
     SearchJob(<<52>>, <<CondTeam>>, EmptyDict, TRUE),
     SearchJob(<<53>>, <<CondJava>>, [json_array |-> <<python>>], TRUE),
     SearchJob(<<54>>, <<CondJava>>, EmptyDict, FALSE)}

SearchResumes ==
    {[id |-> ResumeId, parsed_data |-> [type |-> "null"], sentences |-> s,
      extracted_experience_years |-> Years(8), extracted_skills |-> <<>>] :
        s \in {<<>>, <<SentJava>>}}

Stores ==
    [resumes : {<<>>} \cup {<<resume>> : resume \in SearchResumes},
     jobs : {js \in SUBSET SearchJobs : Cardinality(js) <= MaxJobs}]

\* the orders in which a query can return the rows
Enumerations(rows) ==
    {order \in [1..Cardinality(rows) -> rows] :
        \A i, j \in 1..Cardinality(rows) : i # j => order[i] # order[j]}

\* round(x * 100, 1)
percentage(x) == RoundTo(FMul(x, FromInt(100)), 1)

\* _convert_category_scores_to_percentage: every category has a score
convert_category_scores_to_percentage(category_scores) ==
    [key \in DOMAIN category_scores |->
        [score |-> percentage(category_scores[key].score),
         weight |-> category_scores[key].weight]]

\* lines 131-143
result_dict(secret, resume, job, matching_result) ==
    [matching_id |-> generate_matching_id(secret, resume.id, job.id),
     job_id |-> job.id,
     job_title |-> job.title,
     company_name |-> None,
     location |-> job.location,
     experience_level |-> job.experience_level,
     overall_score |-> percentage(FloatOfDecimal(matching_result.overall_score)),
     grade |-> matching_result.grade,
     category_scores |->
         convert_category_scores_to_percentage(matching_result.category_scores),
     matching_evidence |-> matching_result.matching_evidence,
     penalties |-> matching_result.penalties]

\* list.sort(key=overall_score, reverse=True) is stable: an item goes after
\* the items whose score is at least its own
insert_by_score(sorted, item) ==
    LET ahead == Cardinality({i \in DOMAIN sorted :
                                  FLe(item.overall_score, sorted[i].overall_score)})
    IN  SubSeq(sorted, 1, ahead) \o <<item>> \o SubSeq(sorted, ahead + 1, Len(sorted))

RECURSIVE sort_by_score(_)
sort_by_score(results) ==
    IF results = <<>> THEN <<>>
    ELSE insert_by_score(sort_by_score(SubSeq(results, 1, Len(results) - 1)),
                         results[Len(results)])

\* the sentence count never looked at
has_no_sentences_unchecked(sentence_count) == FALSE

\* line 106
has_no_sentences(sentence_count) == sentence_count = 0

\* a failed job taking the results collected so far with it
skip_job_and_reset(search, job) == [search EXCEPT !.skipped = Append(@, job.id), !.results = <<>>]

\* lines 147-149: a job whose scoring raised is logged and skipped
skip_job(search, job) == [search EXCEPT !.skipped = Append(@, job.id)]

\* lines 98-109; queries lists the tables queried so far
search_started(store) ==
    IF store.resumes = <<>>
    THEN Raised("ValueError: Resume not found") @@ [queries |-> <<"Resume">>]
    ELSE IF has_no_sentences(Len(store.resumes[1].sentences))
    THEN Raised("ValueError: Resume has no sentence embeddings")
         @@ [queries |-> <<"Resume", "ResumeSentence">>]
    ELSE [status |-> "running", queries |-> <<"Resume", "ResumeSentence">>,
          all_jobs |-> <<>>, results |-> <<>>, skipped |-> <<>>]

\* lines 125-149 for one job
job_scored(search, secret, resume, job, matching_result) ==
    IF matching_result.status = "raised"
    THEN skip_job(search, job)
    ELSE [search EXCEPT !.results =
              Append(@, result_dict(secret, resume, job, matching_result))]

\* lines 152-157
search_returned(search) ==
    [status |-> "ok", matches |-> sort_by_score(search.results),
     queries |-> search.queries, all_jobs |-> search.all_jobs, skipped |-> search.skipped]

ValueErrors ==
    {"ValueError: Resume not found", "ValueError: Resume has no sentence embeddings"}

\* api/v1/matching.py lines 101-129
search_jobs_response(resume_id, returned) ==
    IF returned.status = "raised"
    THEN [status_code |-> IF returned.error \in ValueErrors THEN 404 ELSE 500,
          detail |-> returned.error, service |-> returned]
    ELSE [status_code |-> 200,
          body |-> [resume_id |-> resume_id, matches |-> returned.matches,
                    total_count |-> Len(returned.matches)],
          service |-> returned]

SearchJobsForResume ==
    /\ pc = "idle"
    /\ \E store \in Stores, limit \in Limits :
           /\ call' = [op |-> "search_jobs_for_resume", resume_id |-> ResumeId,
                       limit |-> limit, store |-> store]
           /\ result' = search_started(store)
           /\ pc' = IF search_started(store).status = "raised" THEN "raised" ELSE "query_jobs"
    /\ UNCHANGED <<settings, resume_sentence_cache, resume_sentence, resume_table, job_sentence>>

\* lines 112-121: the active postings, in the order the store returns them
QueryJobs ==
    /\ pc = "query_jobs"
    /\ \E all_jobs \in Enumerations({job \in call.store.jobs : job.is_active}) :
           result' = [result EXCEPT !.all_jobs = all_jobs,
                                    !.queries = Append(@, "JobPosting")]
    /\ pc' = "score_jobs"
    /\ UNCHANGED <<settings, call, resume_sentence_cache, resume_sentence, resume_table, job_sentence>>

\* one turn of the loop of lines 125-149
ScoreJob ==
    /\ pc = "score_jobs"
    /\ Len(result.results) + Len(result.skipped) < Len(result.all_jobs)
    /\ \E job \in {result.all_jobs[Len(result.results) + Len(result.skipped) + 1]} :
           result' = job_scored(result, settings.JWT_SECRET_KEY, call.store.resumes[1], job,
                                calculate_matching_score(settings.SECTIONAL_WEIGHTS, "up",
                                                         job, call.store.resumes[1], FALSE))
    /\ UNCHANGED <<settings, pc, call, resume_sentence_cache, resume_sentence, resume_table, job_sentence>>

SortAndReturn ==
    /\ pc = "score_jobs"
    /\ Len(result.results) + Len(result.skipped) = Len(result.all_jobs)
    /\ result' = search_returned(result)
    /\ pc' = "returned"
    /\ UNCHANGED <<settings, call, resume_sentence_cache, resume_sentence, resume_table, job_sentence>>

SearchJobsEndpoint ==
    /\ pc \in {"raised", "returned"}
    /\ call.op = "search_jobs_for_resume"
    /\ result' = search_jobs_response(call.resume_id, result)
    /\ pc' = "done"
    /\ UNCHANGED <<settings, call, resume_sentence_cache, resume_sentence, resume_table, job_sentence>>

NextSearch == SearchJobsForResume \/ QueryJobs \/ ScoreJob \/ SortAndReturn \/ SearchJobsEndpoint

SpecSearch == InitScoring /\ [][NextSearch]_vars

SearchReturned == pc = "returned" /\ call.op = "search_jobs_for_resume"

SearchRaised == pc = "raised" /\ call.op = "search_jobs_for_resume"

SearchAnswered == pc = "done" /\ call.op = "search_jobs_for_resume"

SearchesSentencelessResume ==
    /\ call.op = "search_jobs_for_resume"
    /\ call.store.resumes # <<>>
    /\ call.store.resumes[1].sentences = <<>>

\* C12: a search for a resume without stored sentences raises the ValueError
\* "Resume has no sentence embeddings", which the endpoint answers with 404,
\* and the job postings are never queried nor scored.
C12_NoSentencesNotFound ==
    SearchesSentencelessResume =>
        /\ pc \in {"raised", "done"}
        /\ SearchRaised =>
               /\ result = Raised("ValueError: Resume has no sentence embeddings")
                           @@ [queries |-> <<"Resume", "ResumeSentence">>]
        /\ SearchAnswered =>
               /\ result.status_code = 404
               /\ "JobPosting" \notin Range(result.service.queries)

C12_Witness ==
    /\ SearchAnswered
    /\ SearchesSentencelessResume
    /\ call.store.jobs # {}
    /\ result.status_code = 404

MatchedIds(matches) == {matches[i].job_id : i \in DOMAIN matches}

\* the enumerated jobs whose scoring raises
RaisingIds(all_jobs) ==
    {all_jobs[i].id : i \in {k \in DOMAIN all_jobs :
        calculate_matching_score(settings.SECTIONAL_WEIGHTS, "up", all_jobs[k],
                                 call.store.resumes[1], FALSE).status = "raised"}}

SortedByScore(matches) ==
    \A i, j \in DOMAIN matches :
        i < j => FLe(matches[j].overall_score, matches[i].overall_score)

TiesAscending(matches) ==
    \A i, j \in DOMAIN matches :
        (i < j /\ matches[i].overall_score = matches[j].overall_score)
            => StrLess(matches[i].job_id, matches[j].job_id)

TiesDescending(matches) ==
    \A i, j \in DOMAIN matches :
        (i < j /\ matches[i].overall_score = matches[j].overall_score)
            => StrLess(matches[j].job_id, matches[i].job_id)

\* C14 (as claimed): the returned matches are in non-increasing order of
\* score, and matches of equal score are in the order of their job ids.
C14_TiesOrderedByJobId ==
    SearchReturned =>
        /\ SortedByScore(result.matches)
        /\ TiesAscending(result.matches) \/ TiesDescending(result.matches)

\* C15 (as claimed): the search returns at most limit matches.
C15_AtMostLimit ==
    SearchReturned => Len(result.matches) <= call.limit

\* ------------------------------------------------------------------------
\* services/matching_service.py lines 383-427: one condition of a section,
\* from its best sentence similarity to the score that enters the mean
\* ------------------------------------------------------------------------
\* one condition for each threshold 0.75, 0.62, 0.60, 0.65, 0.70
ThresholdConditions == {CondJava, CondPython, CondMysql, CondTeam, docker, express}

SingleUnit == 2 ^ 24

\* float(a @ b / (na * nb)) is a float32 value: the hundredths in single
\* precision, and the float32 values around 0.75 and 1
Similarities ==
    {FDivP(FromInt(n), FromInt(100), SinglePrecision) : n \in 0..100}
        \cup {FDivP(FromInt(k), FromInt(SingleUnit), SinglePrecision) :
                 k \in {3 * (SingleUnit \div 4) - 1, 3 * (SingleUnit \div 4) + 2,
                        SingleUnit - 1, SingleUnit + 2}}

NoSentences == [lines |-> <<>>, sections |-> <<>>, embs |-> <<>>]

scored_condition(d, section) == [analysis |-> d, score |-> condition_score(d, section)]

ScoreCondition ==
    /\ pc = "idle"
    /\ \E condition \in ThresholdConditions, section \in Sections, best_sim \in Similarities :
           /\ call' = [op |-> "score_condition", condition |-> condition,
                       section |-> section, best_sim |-> best_sim]
           /\ result' = scored_condition(
                            compared_condition(condition, NoSentences,
                                               [sim |-> best_sim, sent |-> <<>>],
                                               get_dynamic_threshold(condition, section)),
                            section)
    /\ pc' = "done"
    /\ UNCHANGED <<settings, resume_sentence_cache, resume_sentence, resume_table, job_sentence>>

NextCondition == ScoreCondition

SpecCondition == InitScoring /\ [][NextCondition]_vars

ScoredCondition == pc = "done" /\ call.op = "score_condition"

\* C16: the score of a condition is in [0, 1], and it is 1.0 exactly when
\* the best sentence similarity is at least the threshold of the condition.
C16_ConditionScore ==
    ScoredCondition =>
        /\ FLe(FZero, result.score)
        /\ FLe(result.score, One)
        /\ (FLe(One, result.score)
                <=> FLe(get_dynamic_threshold(call.condition, call.section), call.best_sim))

\* a condition of the preferred section missed by one float32 step below 0.75
C16_Witness ==
    /\ ScoredCondition
    /\ call.section = "preferred"
    /\ ~result.analysis.matched
    /\ FLt(Hundredths[99], result.score)
    /\ FLt(result.score, One)

\* ------------------------------------------------------------------------
\* services/ml/scoring.py: calculate_experience_score
\* ------------------------------------------------------------------------
\* _compare_experience_level with no bucket looked at
compare_experience_level_any(job_level, candidate_years) == TRUE

\* lines 879-883
level_map == (junior :> <<0, 3>>) @@ (mid :> <<3, 7>>) @@ (senior :> <<7, 100>>)

\* the bucket without its upper end
compare_experience_level_from(job_level, candidate_years) ==
    IF job_level = <<>> THEN TRUE
    ELSE Get(level_map, Lower(job_level), <<0, 100>>)[1] <= candidate_years

\* _compare_experience_level
compare_experience_level(job_level, candidate_years) ==
    IF job_level = <<>> THEN TRUE
    ELSE LET range == Get(level_map, Lower(job_level), <<0, 100>>)
         IN  range[1] <= candidate_years /\ candidate_years < range[2]

\* lines 803-821; max_years is a column value
year_score_of(required_years, max_years, candidate_years) ==
    IF required_years = 0 THEN Dec(8, 10)
    ELSE IF candidate_years >= required_years
    THEN (IF OrZero(max_years) # 0 /\ candidate_years > OrZero(max_years)
          THEN Dec(7, 10) ELSE One)
    ELSE IF FLe(FMul(FromInt(required_years), Dec(7, 10)), FromInt(candidate_years))
    THEN Dec(6, 10)
    ELSE IF FLe(FMul(FromInt(required_years), Dec(5, 10)), FromInt(candidate_years))
    THEN Dec(4, 10)
    ELSE Dec(2, 10)

\* lines 833-841
experience_details(required_years, max_years, candidate_years) ==
    IntToStr(candidate_years) \o <<45380, 32, 44221, 47141>>
        \o (IF required_years > 0
            THEN IF OrZero(max_years) # 0
                 THEN <<32, 40, 50836, 44396, 58, 32>> \o IntToStr(required_years) \o <<126>>
                      \o IntToStr(OrZero(max_years)) \o <<45380, 41>>
                 ELSE <<32, 40, 50836, 44396, 58, 32>> \o IntToStr(required_years)
                      \o <<45380, 32, 51060, 49345, 41>>
            ELSE <<32, 40, 44221, 47141, 47924, 44288, 41>>)

\* lines 827-831 and 843-852
experience_result(required_years, max_years, candidate_years, year_score, level_match) ==
    [score |-> FMinOf(FAdd(FMul(year_score, Dec(7, 10)),
                           FMul(IF level_match THEN One ELSE Dec(5, 10), Dec(3, 10))),
                      One),
     required_years |-> required_years,
     max_years |-> max_years,
     candidate_years |-> candidate_years,
     level_match |-> level_match,
     year_score |-> RoundTo(year_score, 3),
     level_score |-> RoundTo(IF level_match THEN One ELSE Dec(5, 10), 3),
     details |-> experience_details(required_years, max_years, candidate_years)]

levelled_experience(required_years, max_years, candidate_years, level_match) ==
    experience_result(required_years, max_years, candidate_years,
                      year_score_of(required_years, max_years, candidate_years),
                      level_match)

\* no column value of the model makes the body raise
calculate_experience_score(job, resume) ==
    levelled_experience(OrZero(job.min_experience_years), job.max_experience_years,
                        OrZero(resume.extracted_experience_years),
                        compare_experience_level(job.experience_level,
                                                 OrZero(resume.extracted_experience_years)))

MaxExperienceYears == {NoYears} \cup {Years(y) : y \in {0, 5}}

ExperienceJobs ==
    [experience_level : ExperienceLevels, min_experience_years : MinExperienceYears,
     max_experience_years : MaxExperienceYears]

\* 151 years are beyond 1.5 times every bucket
ExperienceYears == CandidateYears \cup {Years(151)}

ExperienceResumes == [extracted_experience_years : ExperienceYears]

CalculateExperienceScore ==
    /\ pc = "idle"
    /\ \E job \in ExperienceJobs, resume \in ExperienceResumes :
           /\ call' = [op |-> "calculate_experience_score", job |-> job, resume |-> resume]
           /\ result' = calculate_experience_score(job, resume)
    /\ pc' = "done"
    /\ UNCHANGED <<settings, resume_sentence_cache, resume_sentence, resume_table, job_sentence>>

NextExperience == CalculateExperienceScore

SpecExperience == InitScoring /\ [][NextExperience]_vars

\* minimum 3 years, level mid, candidate with 2 years
ScoredTwoOfThreeYears ==
    /\ pc = "done"
    /\ call.op = "calculate_experience_score"
    /\ call.job.min_experience_years = Years(3)
    /\ call.job.experience_level = mid
    /\ call.resume.extracted_experience_years = Years(2)

\* the decimal 0.42999999999999994
Decimal043 ==
    [s |-> 1, n |-> BAdd(BMul(BFromInt(429999999), Pow10(8)), BFromInt(99999994)), k |-> 17]

\* C17 (as claimed): minimum 3 years, candidate 2 years and level mid give
\* the year score 0.6, the level score 1.0 and the combined score 0.72.
C17_TwoOfThreeAsClaimed ==
    ScoredTwoOfThreeYears =>
        /\ result.year_score = Dec(6, 10)
        /\ result.level_score = One
        /\ result.score = Dec(72, 100)

\* C17 (amended): minimum 3 years, candidate 2 years and level mid give the
\* year score 0.4 (2 is below 3 * 0.7), the level score 0.5 (2 years are
\* outside the bucket mid) and the combined score 0.42999999999999994.
C17_TwoOfThreeYears ==
    ScoredTwoOfThreeYears =>
        /\ result.year_score = Dec(4, 10)
        /\ ~result.level_match
        /\ result.level_score = Dec(5, 10)
        /\ DecimalOfStr(result.score) = Decimal043

C17_Witness ==
    /\ ScoredTwoOfThreeYears
    /\ call.job.max_experience_years = NoYears
    /\ result.required_years = 3
    /\ result.candidate_years = 2
    /\ FLt(result.score, Dec(43, 100))

\* the required conditions of the job, and those for which no resume skill
\* contains the condition or is contained in it
RequiredConditions(job) == Get(job.requirements, "required", <<>>)

KeywordFound(req, skills) ==
    \E i \in DOMAIN skills :
        IsSubstring(Lower(skills[i]), Lower(req)) \/ IsSubstring(Lower(req), Lower(skills[i]))

KeywordMissing(job, resume) ==
    {i \in DOMAIN RequiredConditions(job) :
        ~KeywordFound(RequiredConditions(job)[i], resume.extracted_skills)}

PenaltiesCalculated == pc = "done" /\ call.op = "calculate_penalties"

MaxChars == 5

MaxChunks == 2

MaxTokens == 5

\* "a", "aaaa", "\n\n", "\r", " "
TextTokens == {<<97>>, <<97, 97, 97, 97>>, <<10, 10>>, <<13>>, <<32>>}

Texts == {Concat(parts) : parts \in SeqsUpTo(TextTokens, MaxTokens)}

\* text.replace("\r", "\n")
ReplaceCr(text) == [i \in 1..Len(text) |-> IF text[i] = 13 THEN 10 ELSE text[i]]

\* str.split("\n\n"), para being the part read so far
RECURSIVE SplitParagraphs(_, _)
SplitParagraphs(rest, para) ==
    IF rest = <<>> THEN <<para>>
    ELSE IF Len(rest) >= 2 /\ rest[1] = 10 /\ rest[2] = 10
    THEN <<para>> \o SplitParagraphs(SubSeq(rest, 3, Len(rest)), <<>>)
    ELSE SplitParagraphs(Tail(rest), Append(para, Head(rest)))

\* "\n\n".join(current)
RECURSIVE JoinParagraphs(_)
JoinParagraphs(current) ==
    IF current = <<>> THEN <<>>
    ELSE IF Len(current) = 1 THEN current[1]
    ELSE current[1] \o <<10, 10>> \o JoinParagraphs(Tail(current))

\* flush(), with the assignment of its result to current, current_len
flush(state) ==
    [chunks |-> IF state.current # <<>>
                THEN Append(state.chunks, JoinParagraphs(state.current))
                ELSE state.chunks,
     current |-> <<>>, current_len |-> 0]

\* current.append(p); current_len += len(p)
appended(state, p) ==
    [state EXCEPT !.current = Append(@, p), !.current_len = @ + Len(p)]

\* lines 50-55: a piece of a long paragraph
add_piece(state, piece, limit) ==
    flush(appended(IF state.current_len + Len(piece) > limit THEN flush(state) ELSE state,
                   piece))

\* lines 46-56
RECURSIVE slice_paragraph(_, _, _, _)
slice_paragraph(state, para, start, limit) ==
    IF start >= Len(para) THEN state
    ELSE slice_paragraph(add_piece(state,
                                   SubSeq(para, start + 1, Min(start + limit, Len(para))),
                                   limit),
                         para, Min(start + limit, Len(para)), limit)

\* lines 43-61: the separators already in current are not counted
add_paragraph(state, para, limit) ==
    IF Len(para) > limit THEN slice_paragraph(state, para, 0, limit)
    ELSE appended(IF state.current_len + Len(para)
                         + (IF state.current # <<>> THEN 2 ELSE 0) > limit
                  THEN flush(state) ELSE state,
                  para)

RECURSIVE add_paragraphs(_, _, _)
add_paragraphs(state, paragraphs, limit) ==
    IF paragraphs = <<>> THEN state
    ELSE add_paragraphs(add_paragraph(state, Head(paragraphs), limit), Tail(paragraphs), limit)

\* lines 63-66
truncate_chunks(chunks, text, limit, max_chunks) ==
    IF Len(chunks) > max_chunks THEN SubSeq(chunks, 1, max_chunks)
    ELSE IF chunks # <<>> THEN chunks
    ELSE <<SubSeq(text, 1, limit)>>

paragraphs_of(text) == SelectSeq(SplitParagraphs(ReplaceCr(text), <<>>), LAMBDA p : ~IsBlank(p))

split_text_into_chunks(text, max_chars, max_chunks) ==
    IF text = <<>> THEN << <<>> >>
    ELSE IF Len(text) <= max_chars THEN <<text>>
    ELSE truncate_chunks(
             flush(add_paragraphs([chunks |-> <<>>, current |-> <<>>, current_len |-> 0],
                                  paragraphs_of(text), max_chars)).chunks,
             text, max_chars, max_chunks)

SplitTextIntoChunks ==
    /\ pc = "idle"
    /\ \E text \in Texts :
           /\ call' = [op |-> "split_text_into_chunks", text |-> text]
           /\ result' = [status |-> "ok",
                         chunks |-> split_text_into_chunks(text, MaxChars, MaxChunks)]
    /\ pc' = "done"
    /\ UNCHANGED <<settings, resume_sentence_cache, resume_sentence, resume_table, job_sentence>>

\* the texts embedded are at most max_chars long
EmbeddedTexts == {<<>>, <<32>>, CondJava, CondTeam, SentJava}

GenerateEmbedding ==
    /\ pc = "idle"
    /\ \E text \in EmbeddedTexts, service \in ServiceStates :
           /\ call' = [op |-> "generate_embedding", text |-> text, service |-> service]
           /\ result' = generate_embedding(service, text)
    /\ pc' = "done"
    /\ UNCHANGED <<settings, resume_sentence_cache, resume_sentence, resume_table, job_sentence>>

NextEmbedding == SplitTextIntoChunks \/ GenerateEmbedding

SpecEmbedding == InitScoring /\ [][NextEmbedding]_vars

\* C19 (as claimed): a text longer than max_chars is split into at least one
\* and at most max_chunks chunks, each of at most max_chars characters.
C19_ChunksWithinMaxChars ==
    (pc = "done" /\ call.op = "split_text_into_chunks" /\ Len(call.text) > MaxChars) =>
        /\ Len(result.chunks) \in 1..MaxChunks
        /\ \A i \in DOMAIN result.chunks : Len(result.chunks[i]) <= MaxChars

\* C20 (as claimed): generate_embedding on the empty text returns the zero
\* vector and raises nothing.
C20_EmptyTextZeroVector ==
    (pc = "done" /\ call.op = "generate_embedding" /\ call.text = <<>>) =>
        /\ result.ok
        /\ result.val = <<0, 0>>

\* ------------------------------------------------------------------------
\* The feedback step of calculate_matching_score
\* ------------------------------------------------------------------------
\* the same pair scored with the other value of generate_feedback
OtherFeedbackChoice ==
    calculate_matching_score(settings.SECTIONAL_WEIGHTS, call.service, call.job, call.resume,
                             ~call.generate_feedback)

SameScoreFields(a, b) ==
    /\ a.status = b.status
    /\ a.status = "ok" =>
           /\ a.overall_score = b.overall_score
           /\ a.grade = b.grade
           /\ a.category_scores = b.category_scores
           /\ a.penalties = b.penalties

C23_FeedbackAttached ==
    (ReturnedScore /\ call.generate_feedback) =>
        /\ "ai_feedback" \in DOMAIN result.matching_evidence
        /\ result.matching_evidence.ai_feedback # FeedbackError

\* ------------------------------------------------------------------------
\* _get_dynamic_threshold against the threshold table
\* ------------------------------------------------------------------------
\* the thresholds (in hundredths) of the keywords that occur in the condition
KeywordThresholds(condition) ==
    {tech_thresholds[j][2] : j \in {i \in DOMAIN tech_thresholds :
                                        IsSubstring(tech_thresholds[i][1], Lower(condition))}}

MaxOf(numbers) == CHOOSE n \in numbers : \A m \in numbers : m <= n

\* C24 (as claimed): the threshold of a condition is the greatest threshold of
\* the keywords that occur in it, and 0.60 only if none occurs; a condition
\* whose only keyword is mysql gets 0.55.
C24_ThresholdIsTableMaximum ==
    ScoredCondition =>
        result.analysis.threshold_used =
            IF KeywordThresholds(call.condition) = {} THEN Dec(60, 100)
            ELSE Dec(MaxOf(KeywordThresholds(call.condition)), 100)

\* ------------------------------------------------------------------------
\* services/matching_service.py lines 383-441: a section scored from the
\* best sentence similarities of its conditions
\* ------------------------------------------------------------------------
\* 0, 0.30, 0.59, 0.60, 0.71, 0.75 and 0.90 as float32 values
SectionSimilarities ==
    {FDivP(FromInt(n), FromInt(100), SinglePrecision) : n \in {0, 30, 59, 60, 71, 75, 90}}

BestMatches == SeqsUpTo({CondJava, CondTeam} \X SectionSimilarities, MaxConditions) \ {<<>>}

\* lines 383-411 for every condition in turn
analysed_matches(matches, section) ==
    [i \in 1..Len(matches) |->
        compared_condition(matches[i][1], NoSentences, [sim |-> matches[i][2], sent |-> <<>>],
                           get_dynamic_threshold(matches[i][1], section))]

ScoreMatchedSection ==
    /\ pc = "idle"
    /\ \E matches \in BestMatches, section \in Sections :
           /\ call' = [op |-> "score_matched_section", matches |-> matches, section |-> section]
           /\ result' = analysed_section([i \in 1..Len(matches) |-> matches[i][1]],
                                         analysed_matches(matches, section), section)
    /\ pc' = "done"
    /\ UNCHANGED <<settings, resume_sentence_cache, resume_sentence, resume_table, job_sentence>>

NextMatchedSection == ScoreMatchedSection

SpecMatchedSection == InitScoring /\ [][NextMatchedSection]_vars

RequiredScored ==
    pc = "done" /\ call.op = "score_matched_section" /\ call.section = "required"

\* what the condition of a best match adds to the mean of the required section
RequiredCredit(match, section) ==
    IF FLe(get_dynamic_threshold(match[1], section), match[2]) THEN One
    ELSE FMul(FMinOf(One, FDiv(match[2], Dec(60, 100))), Dec(5, 10))

CacheKey(resume) == IntToStr(resume.id)

\* bool(cached) for the value of dict.get: None or the stored dict
\* {'lines', 'embs', 'sections'}
Truthy(cached) == cached # <<>> /\ DOMAIN cached # {}

\* a cache test that takes an entry without lines for no entry
get_cached_sentences_nonempty(cache, service, resume) ==
    IF Truthy(Get(cache, CacheKey(resume), <<>>)) /\ cache[CacheKey(resume)].lines # <<>>
    THEN [cache |-> cache, out |-> Ok(cache[CacheKey(resume)]), loaded |-> FALSE]
    ELSE LET got == get_cached_sentences(service, resume)
         IN  [cache  |-> IF got.ok THEN (CacheKey(resume) :> got.val) @@ cache ELSE cache,
              out    |-> got,
              loaded |-> TRUE]

\* a cache hit that hands out the lines without their embeddings
get_cached_sentences_unembedded(cache, service, resume) ==
    IF Truthy(Get(cache, CacheKey(resume), <<>>))
    THEN [cache |-> cache, loaded |-> FALSE,
          out |-> Ok([cache[CacheKey(resume)] EXCEPT
                         !.embs = [i \in 1..Len(@) |-> NoEmbedding]])]
    ELSE LET got == get_cached_sentences(service, resume)
         IN  [cache  |-> IF got.ok THEN (CacheKey(resume) :> got.val) @@ cache ELSE cache,
              out    |-> got,
              loaded |-> TRUE]

\* _get_cached_sentences on a ScoringService whose cache is `cache`: the cache
\* after the call, what the call returned or raised, and whether the sentence
\* store and the embedding client were asked
get_cached_sentences_in(cache, service, resume) ==
    IF Truthy(Get(cache, CacheKey(resume), <<>>))
    THEN [cache |-> cache, out |-> Ok(cache[CacheKey(resume)]), loaded |-> FALSE]
    ELSE LET got == get_cached_sentences(service, resume)
         IN  [cache  |-> IF got.ok THEN (CacheKey(resume) :> got.val) @@ cache ELSE cache,
              out    |-> got,
              loaded |-> TRUE]

\* _calculate_section_score_by_sentences on that ScoringService; log is the
\* list of the _get_cached_sentences calls made so far
section_scored_in(at, service, job_sentences, got, section) ==
    [cache |-> got.cache, log |-> Append(at.log, [out |-> got.out, loaded |-> got.loaded]),
     score |-> scored_section(service, job_sentences, got.out, section)]

section_score_in(at, service, job, resume, section) ==
    IF get_job_sentences_by_section(job, section) = <<>>
    THEN [cache |-> at.cache, log |-> at.log,
          score |-> [score |-> FZero, evidence |-> EmptyEvidence]]
    ELSE section_scored_in(at, service, get_job_sentences_by_section(job, section),
                           get_cached_sentences_in(at.cache, service, resume), section)

\* steps 2-9 of _calculate_matching_score_sectional_sentences for the section
\* scores r, p and e
scored_pair(weights, service, job, resume, r, p, e) ==
    IF WeightLookupRaises(weights) THEN Raised("KeyError: 'required_match'")
    ELSE IF calculate_penalties_raises(job)
    THEN Raised("AttributeError: 'list' object has no attribute 'get'")
    ELSE summed_score(category_scores_of(weights, r, p, e,
                                         calculate_overall_similarity(service, job, resume),
                                         calculate_education_score),
                      job, resume)

CacheJobs ==
    {[session |-> TRUE, title |-> JobTitle,
      sentences |-> [required |-> r, preferred |-> p, experience |-> <<CondJava>>],
      experience_level |-> <<>>, min_experience_years |-> NoYears, requirements |-> EmptyDict] :
        r \in {<<>>, <<CondJava, CondPython>>}, p \in {<<>>, <<CondTeam>>}}

CacheResumes ==
    [id : {7},
     parsed_data : {[type |-> "null"], [type |-> "list"],
                    [type |-> "dict", summary |-> SummaryText, skills |-> <<python>>]},
     sentences : {<<>>, <<SentJava>>, <<SentSql, SentTeam>>},
     extracted_experience_years : {Years(8)},
     extracted_skills : {<<>>}]

\* the first pair score on a new MatchingService
ScorePair ==
    /\ pc = "idle"
    /\ \E job \in CacheJobs, resume \in CacheResumes, service \in ServiceStates :
         \E r \in {section_score_in([cache |-> resume_sentence_cache, log |-> <<>>],
                                    service, job, resume, "required")} :
           \E p \in {section_score_in(r, service, job, resume, "preferred")} :
             \E e \in {section_score_in(p, service, job, resume, "experience")} :
               \E generate_feedback \in BOOLEAN :
                 /\ call' = [op |-> "calculate_matching_score", job |-> job,
                             resume |-> resume, service |-> service,
                             generate_feedback |-> generate_feedback, log |-> e.log]
                 /\ result' = with_feedback(
                                  scored_pair(settings.SECTIONAL_WEIGHTS, service, job, resume,
                                              r.score, p.score, e.score),
                                  job, resume, generate_feedback)
                 /\ resume_sentence_cache' = e.cache
    /\ pc' = "scored"
    /\ UNCHANGED <<settings, resume_sentence, resume_table, job_sentence>>

\* The same job is scored again for the resume of the same id, on the same
\* MatchingService or on a new one; in between the stored sentences and the
\* state of the embedding service may have changed.
ScorePairAgain ==
    /\ pc = "scored"
    /\ \E same_instance \in BOOLEAN, service \in ServiceStates,
          resume \in {x \in CacheResumes : x.parsed_data = call.resume.parsed_data} :
         \E at \in {IF same_instance THEN [cache |-> resume_sentence_cache, log |-> call.log]
                    ELSE [cache |-> EmptyCache, log |-> <<>>]} :
           \E r \in {section_score_in(at, service, call.job, resume, "required")} :
             \E p \in {section_score_in(r, service, call.job, resume, "preferred")} :
               \E e \in {section_score_in(p, service, call.job, resume, "experience")} :
                 /\ call' = [op |-> "calculate_matching_score_again", job |-> call.job,
                             resume |-> resume, service |-> service,
                             generate_feedback |-> call.generate_feedback, log |-> e.log,
                             same_instance |-> same_instance,
                             first |-> [resume |-> call.resume, service |-> call.service,
                                        log |-> call.log, result |-> result]]
                 /\ result' = with_feedback(
                                  scored_pair(settings.SECTIONAL_WEIGHTS, service, call.job,
                                              resume, r.score, p.score, e.score),
                                  call.job, resume, call.generate_feedback)
                 /\ resume_sentence_cache' = e.cache
    /\ pc' = "done"
    /\ UNCHANGED <<settings, resume_sentence, resume_table, job_sentence>>

NextCache == ScorePair \/ ScorePairAgain

SpecCache == InitScoring /\ [][NextCache]_vars

ScoredAgain == pc = "done" /\ call.op = "calculate_matching_score_again"

\* the second call had the inputs and the collaborator responses of the first
SameInputs == call.resume = call.first.resume /\ call.service = call.first.service

LineJava == <<66, 117, 105, 108, 116, 32, 112, 97, 121, 109, 101, 110, 116, 32, 65, 80, 73, 115, 32, 105, 110, 32, 74, 97, 118, 97, 46>>  \* "Built payment APIs in Java."

LineTeam == <<76, 101, 100, 32, 97, 32, 116, 101, 97, 109, 32, 111, 102, 32, 102, 105, 118, 101, 32, 112, 101, 111, 112, 108, 101, 46>>  \* "Led a team of five people."

LineShort == <<83, 81, 76, 44, 32, 71, 105, 116>>  \* "SQL, Git"

ReqJava == <<70, 105, 118, 101, 32, 121, 101, 97, 114, 115, 32, 111, 102, 32, 74, 97, 118, 97, 32, 98, 97, 99, 107, 101, 110, 100, 32, 119, 111, 114, 107, 46>>  \* "Five years of Java backend work."

PrefTeam == <<69, 120, 112, 101, 114, 105, 101, 110, 99, 101, 32, 108, 101, 97, 100, 105, 110, 103, 32, 97, 32, 115, 109, 97, 108, 108, 32, 116, 101, 97, 109, 46>>  \* "Experience leading a small team."

ChNewline == 10

\* "\n".join(lines)
RECURSIVE JoinLines(_)
JoinLines(lines) ==
    IF lines = <<>> THEN <<>>
    ELSE IF Len(lines) = 1 THEN lines[1]
    ELSE lines[1] \o <<ChNewline>> \o JoinLines(Tail(lines))

\* text.split("\n")
RECURSIVE SplitLines(_, _)
SplitLines(text, line) ==
    IF text = <<>> THEN <<line>>
    ELSE IF Head(text) = ChNewline THEN <<line>> \o SplitLines(Tail(text), <<>>)
    ELSE SplitLines(Tail(text), Append(line, Head(text)))

\* str.strip()
RECURSIVE StripText(_)
StripText(s) ==
    IF s = <<>> THEN s
    ELSE IF IsSpace(Head(s)) THEN StripText(Tail(s))
    ELSE IF IsSpace(s[Len(s)]) THEN StripText(SubSeq(s, 1, Len(s) - 1))
    ELSE s

\* the characters of the look-behind [.!?\n]
StopChars == {46, 33, 63, ChNewline}

RECURSIVE SkipSpaces(_)
SkipSpaces(text) ==
    IF text # <<>> /\ IsSpace(Head(text)) THEN SkipSpaces(Tail(text)) ELSE text

\* re.split(r"(?<=[.!?\n])\s+", text), piece being the text since the last cut
RECURSIVE SplitAfterStops(_, _)
SplitAfterStops(text, piece) ==
    IF text = <<>> THEN <<piece>>
    ELSE IF IsSpace(Head(text)) /\ piece # <<>> /\ piece[Len(piece)] \in StopChars
    THEN <<piece>> \o SplitAfterStops(SkipSpaces(text), <<>>)
    ELSE SplitAfterStops(Tail(text), Append(piece, Head(text)))

\* 20 <= len(s) <= 300 and " " in s and "_" not in s
IsFallbackSentence(s) == 20 <= Len(s) /\ Len(s) <= 300 /\ 32 \in Range(s) /\ 95 \notin Range(s)

\* the fallback of _llm_split_sentences, the same as LLMParser._fallback_sentence_split
fallback_sentence_split(text) ==
    LET raw == SplitAfterStops(text, <<>>)
    IN  SelectSeq([i \in 1..Len(raw) |-> CollapseSpaces(raw[i])], IsFallbackSentence)

\* What parser.extract_sentences answers: the import or the parser raises, the
\* model returns no sentence, or it returns the lines of the text.
LlmStates == {"raises", "empty", "lines"}

extract_sentences(llm, text) ==
    IF llm = "raises" THEN Fail("Exception: LLM unavailable")
    ELSE IF llm = "empty" THEN Ok([sentences |-> <<>>])
    ELSE Ok([sentences |-> SplitLines(text, <<>>)])

IsNotBlank(s) == ~IsBlank(s)

llm_sentences(res) ==
    LET kept == SelectSeq(res.sentences, IsNotBlank)
    IN  [i \in 1..Len(kept) |-> StripText(kept[i])]

llm_split_sentences(llm, text) ==
    IF text = <<>> THEN <<>>
    ELSE LET res == extract_sentences(llm, text)
         IN  IF res.ok /\ llm_sentences(res.val) # <<>> THEN llm_sentences(res.val)
             ELSE fallback_sentence_split(text)

\* the rows index_resume adds for the sentences it could embed; id stands for
\* the uuid4 primary key
resume_rows(table, resume, sentences, service) ==
    {[id |-> Cardinality(table) + i, resume_id |-> resume.id, section |-> "None",
      idx |-> i - 1, text |-> sentences[i],
      embedding |-> generate_embedding(service, sentences[i]).val] :
        i \in {k \in 1..Len(sentences) : generate_embedding(service, sentences[k]).ok}}

index_resume(table, resume, llm, service) ==
    table \cup resume_rows(table, resume, llm_split_sentences(llm, resume.raw_text), service)

job_rows(table, job, section, sentences, service) ==
    {[id |-> Cardinality(table) + i, job_id |-> job.id, section |-> section,
      idx |-> i - 1, text |-> sentences[i],
      embedding |-> generate_embedding(service, sentences[i]).val] :
        i \in {k \in 1..Len(sentences) : generate_embedding(service, sentences[k]).ok}}

split_joined(llm, src) ==
    IF JoinLines(src) # <<>> THEN llm_split_sentences(llm, JoinLines(src)) ELSE <<>>

required_rows(table, job, llm, service) ==
    table \cup job_rows(table, job, "required",
                        split_joined(llm, Get(job.requirements, "required", <<>>)), service)

index_job(table, job, llm, service) ==
    LET added == required_rows(table, job, llm, service)
    IN  added \cup job_rows(added, job, "preferred",
                            split_joined(llm, Get(job.requirements, "preferred", <<>>)), service)

\* the rows of the table job_posting; this part of the program does not write it
job_posting ==
    {[id |-> 1, requirements |-> [required |-> <<ReqJava, CondJava>>, preferred |-> <<PrefTeam>>]],
     [id |-> 2, requirements |-> EmptyDict]}

MaxResumes == 2

MaxSentenceRows == 4

RawTexts == {<<>>, LineJava, JoinLines(<<LineJava, LineShort, LineTeam>>)}

HasRows(table, key, id) == \E row \in table : row[key] = id

has_sentences(before, after) == Cardinality(after) > Cardinality(before)

\* POST /resumes/upload-and-process: the text extracted from the file is
\* raw_text; the Resume row is stored, then its sentences are indexed
UploadAndProcess ==
    /\ Cardinality(resume_table) < MaxResumes
    /\ \E raw_text \in RawTexts, llm \in LlmStates, service \in ServiceStates :
         LET resume == [id |-> Cardinality(resume_table) + 1, raw_text |-> raw_text]
         IN  /\ call' = [op |-> "upload_and_process", raw_text |-> raw_text,
                         llm |-> llm, service |-> service]
             /\ resume_table' = resume_table \cup {resume}
             /\ \E indexed \in {index_resume(resume_sentence, resume, llm, service)} :
                  IF IsBlank(raw_text)
                  THEN /\ resume_sentence' = resume_sentence
                       /\ result' = [status |-> "ok", resume_id |-> resume.id,
                                     message |-> "empty_text_skipped"]
                  ELSE /\ resume_sentence' = indexed
                       /\ result' = [status |-> "ok", resume_id |-> resume.id,
                                     has_sentences |-> has_sentences(resume_sentence, indexed)]
    /\ pc' = "done"
    /\ UNCHANGED <<settings, resume_sentence_cache, job_sentence>>

\* POST /resumes/{resume_id}/generate-embeddings
GenerateResumeEmbeddings ==
    /\ Cardinality(resume_sentence) < MaxSentenceRows
    /\ \E resume_id \in 1..MaxResumes, llm \in LlmStates, service \in ServiceStates :
         /\ call' = [op |-> "generate_resume_embeddings", resume_id |-> resume_id,
                     llm |-> llm, service |-> service]
         /\ IF ~HasRows(resume_table, "id", resume_id)
            THEN /\ result' = [status |-> "raised", error |-> "HTTP 404: Resume not found"]
                 /\ resume_sentence' = resume_sentence
            ELSE \E resume \in {r \in resume_table : r.id = resume_id} :
                   \E indexed \in {index_resume(resume_sentence, resume, llm, service)} :
                     /\ resume_sentence' = indexed
                     /\ result' = [status |-> "ok", resume_id |-> resume_id, updated |-> TRUE,
                                   has_sentences |-> has_sentences(resume_sentence, indexed)]
    /\ pc' = "done"
    /\ UNCHANGED <<settings, resume_sentence_cache, resume_table, job_sentence>>

\* the loop of backfill_sentences.main over the resumes, in id order
RECURSIVE backfill_resumes(_, _, _, _)
backfill_resumes(table, next_id, llm, service) ==
    IF next_id > Cardinality(resume_table) THEN table
    ELSE LET r == CHOOSE row \in resume_table : row.id = next_id
         IN  IF HasRows(table, "resume_id", r.id)
             THEN backfill_resumes(table, next_id + 1, llm, service)
             ELSE backfill_resumes(index_resume(table, r, llm, service), next_id + 1, llm, service)

\* the loop over the jobs
RECURSIVE backfill_jobs(_, _, _, _)
backfill_jobs(table, next_id, llm, service) ==
    IF next_id > Cardinality(job_posting) THEN table
    ELSE LET j == CHOOSE row \in job_posting : row.id = next_id
         IN  IF HasRows(table, "job_id", j.id)
             THEN backfill_jobs(table, next_id + 1, llm, service)
             ELSE backfill_jobs(index_job(table, j, llm, service), next_id + 1, llm, service)

\* python backend/scripts/backfill_sentences.py
BackfillSentences ==
    /\ \E llm \in LlmStates, service \in ServiceStates :
         \E resumes_done \in {backfill_resumes(resume_sentence, 1, llm, service)} :
           \E jobs_done \in {backfill_jobs(job_sentence, 1, llm, service)} :
             /\ call' = [op |-> "backfill_sentences", llm |-> llm, service |-> service]
             /\ resume_sentence' = resumes_done
             /\ job_sentence' = jobs_done
             /\ result' = [status |-> "ok"]
    /\ pc' = "done"
    /\ UNCHANGED <<settings, resume_sentence_cache, resume_table>>

\* the tables are empty and the settings are those of core/config.py
InitIndex ==
    /\ InitScoring
    /\ settings.SECTIONAL_WEIGHTS = SECTIONAL_WEIGHTS

NextIndex == UploadAndProcess \/ GenerateResumeEmbeddings \/ BackfillSentences

SpecIndex == InitIndex /\ [][NextIndex]_vars

\* C27: after any sequence of upload-and-process, generate-embeddings and
\* backfill runs no resume has two stored ResumeSentence rows with the same
\* idx: the sentences of a resume are written once.
C27_SentencesWrittenOnce ==
    \A a \in resume_sentence, b \in resume_sentence :
        (a.resume_id = b.resume_id /\ a.idx = b.idx) => a = b

ExperienceScored == pc = "done" /\ call.op = "calculate_experience_score"

\* C28: whenever the penalty engine finds an experience level mismatch for
\* a job and a resume, the experience scorer reports level_match = false for
\* them.
C28_MismatchImpliesNoLevelMatch ==
    (ExperienceScored /\ detect_experience_level_mismatch(call.job, call.resume))
        => ~result.level_match

\* an unknown level label and 151 years: beyond 1.5 * 100 and outside [0, 100)
C28_Witness ==
    /\ ExperienceScored
    /\ call.job.experience_level = lead
    /\ call.resume.extracted_experience_years = Years(151)
    /\ detect_experience_level_mismatch(call.job, call.resume)
    /\ ~result.level_match

\* ------------------------------------------------------------------------
\* services/ml/embedding.py: generate_embedding with its chunked branch and
\* generate_embeddings_batch with its fallback, one step per call or return.
\*
\* An embedding is a vector of the model, the zero vector, or the pooling of
\* the embeddings of the chunks.  result holds the stack of the calls of
\* generate_embedding that have not returned; Python ends a recursion
\* deeper than its recursion limit with RecursionError, an Exception.
\* ------------------------------------------------------------------------
RecursionLimit == 3

ZeroVector == <<0, 0>>

\* vec / norm of np.mean(embs, axis=0)
mean_pooled(embs) == [pooled |-> embs]

\* the batch endpoint embeds the clipped texts
batch_embeddings(chunks, max_chars) ==
    [i \in 1..Len(chunks) |-> EmbeddingModel(SubSeq(chunks[i], 1, Min(Len(chunks[i]), max_chars)))]

entered(text) == [text |-> text, phase |-> "entered", pending |-> <<>>, embeddings |-> <<>>]

\* line 96
takes_chunked_branch(text) == text # <<>> /\ Len(text) > MaxChars

\* the caller in generate_embeddings_batch takes the embedding, or the zero
\* vector for a call that raised (lines 152-157)
resumed(frame, outcome) ==
    [frame EXCEPT !.pending = Tail(@),
                  !.embeddings = Append(@, IF outcome.ok THEN outcome.val ELSE ZeroVector)]

\* the top call returns or raises: to its caller, or to the client
returned_to(stack, outcome) ==
    IF Len(stack) = 1 THEN [status |-> "returned", outcome |-> outcome, stack |-> <<>>]
    ELSE [status |-> "running",
          stack |-> SubSeq(stack, 1, Len(stack) - 2)
                    \o <<resumed(stack[Len(stack) - 1], outcome)>>]

with_top(stack, frame) ==
    [status |-> "running", stack |-> SubSeq(stack, 1, Len(stack) - 1) \o <<frame>>]

\* lines 96-101 and 130-143: chunk, then the batch endpoint or the fallback
chunked(stack, frame, chunks, batch) ==
    IF batch = "up"
    THEN returned_to(stack, Ok(mean_pooled(batch_embeddings(chunks, MaxChars))))
    ELSE with_top(stack, [frame EXCEPT !.phase = "fallback", !.pending = chunks])

\* lines 150-161: the next chunk is embedded by generate_embedding
fallback_step(stack, frame) ==
    IF frame.pending = <<>> THEN returned_to(stack, Ok(mean_pooled(frame.embeddings)))
    ELSE IF Len(stack) >= RecursionLimit
    THEN with_top(stack, resumed(frame, Fail("RecursionError")))
    ELSE [status |-> "running", stack |-> Append(stack, entered(Head(frame.pending)))]

embedding_step(stack, frame, service, batch) ==
    IF frame.phase = "fallback" THEN fallback_step(stack, frame)
    ELSE IF takes_chunked_branch(frame.text)
    THEN chunked(stack, frame, split_text_into_chunks(frame.text, MaxChars, MaxChunks), batch)
    ELSE returned_to(stack, generate_embedding(service, frame.text))

EmbedText ==
    /\ pc = "idle"
    /\ \E text \in Texts, service \in ServiceStates, batch \in ServiceStates :
           /\ call' = [op |-> "embed_text", text |-> text, service |-> service,
                       batch |-> batch]
           /\ result' = [status |-> "running", stack |-> <<entered(text)>>]
    /\ pc' = "embedding"
    /\ UNCHANGED <<settings, resume_sentence_cache, resume_sentence, resume_table, job_sentence>>

EmbedStep ==
    /\ pc = "embedding"
    /\ result' = embedding_step(result.stack, result.stack[Len(result.stack)],
                                call.service, call.batch)
    /\ pc' = IF Len(result.stack) = 1
                /\ embedding_step(result.stack, result.stack[1],
                                  call.service, call.batch).status = "returned"
             THEN "done" ELSE "embedding"
    /\ UNCHANGED <<settings, call, resume_sentence_cache, resume_sentence, resume_table, job_sentence>>

NextChunkedEmbedding == EmbedText \/ EmbedStep

SpecChunkedEmbedding == InitScoring /\ [][NextChunkedEmbedding]_vars

\* C29 (as claimed): a call of generate_embedding made for a chunk never
\* takes the chunked branch again.
C29_ChunkNotChunkedAgain ==
    (pc = "embedding" /\ call.op = "embed_text") =>
        \A i \in 2..Len(result.stack) : ~takes_chunked_branch(result.stack[i].text)

\* ------------------------------------------------------------------------
\* Jobs whose sentences were written by SentenceIndexer.index_job
\* ------------------------------------------------------------------------
\* the values of JobSentence.section that index_job writes (lines 83 and 90)
IndexJobSections == {"required", "preferred"}

\* every row the backfill has written for a job comes from index_job
IndexJobWritesItsSections == \A row \in job_sentence : row.section \in IndexJobSections

IndexedByIndexJob(job) ==
    \A section \in DOMAIN job.sentences :
        job.sentences[section] # <<>> => section \in IndexJobSections

\* 0.40 + 0.08 + 0.20, the weights of required_match, preferred_match and
\* overall_similarity
SumWithoutExperience == Dec(68, 100)

====
